---- MODULE Spec2Model ----
(***************************************************************************)
(* A model of the transformer notebook: selfAttention (construction and    *)
(* forward pass, statement by statement), PositionalEncoding.forward, the  *)
(* Tokenizer and the inference loop.                                       *)
(*                                                                         *)
(* Numbers.  Inputs, weights and Q/K/V are integers.  A score is           *)
(* v / sqrt(s) or -inf.  softmax is computed exactly: with                 *)
(* y = exp(-1/sqrt(s)), a weight is a quotient of two polynomials in y     *)
(* with integer coefficients.  y is transcendental, so two quotients are   *)
(* the same real number exactly when they cross-multiply to the same       *)
(* polynomial.  float32 enters in one place: exp underflows to exactly 0   *)
(* once its argument is ExpUnderflow or more below zero.                   *)
(*                                                                         *)
(* Tensors are strided views of flat storage, as in the tensor library:    *)
(* view and transpose change shape and stride only, and view fails when    *)
(* the strides do not allow the new shape.                                 *)
(*                                                                         *)
(* The language model's transformer stack and head are a function of the   *)
(* model's parameters and the token sequence (LogitAt); the inference loop *)
(* around it is modelled statement by statement.                           *)
(*                                                                         *)
(* LanguageModel is also modelled as an object: its parameter tensors have *)
(* ids, forward runs statement by statement through the blocks, and the    *)
(* value of x is a term that records which module was applied to what.     *)
(* Tokenizer.encode, Tokenizer.decode and the embedding lookup are calls   *)
(* that return a value or raise.                                           *)
(***************************************************************************)
EXTENDS Integers, Sequences, FiniteSets, TLC

\* ------------------------------------------------------------------ bounds
\* selfAttention: d_embed and d_head up to MaxD, batches up to MaxB, sequences
\* up to MaxL, input rows 0..MaxTok, layer parameters 0..MaxW
MaxD == 3
MaxB == 2
MaxL == 2
MaxTok == 2
MaxW == 1
\* inference: vocabularies up to MaxVocab, prompts up to MaxPrompt characters,
\* max_new_tokens up to MaxNew, model parameters 0..MaxModel, max_len up to
\* MaxLenCfg
MaxVocab == 3
MaxPrompt == 2
MaxNew == 2
MaxModel == 1
MaxLenCfg == 2
\* PositionalEncoding: d_embed up to MaxDEmbed
MaxDEmbed == 4
\* LanguageModel: num_layers up to MaxLayers, max_len up to MaxLmLen
MaxLayers == 2
MaxLmLen == 3
\* FullyVisibleBM: up to MaxUnits units, data of up to MaxCells entries, initial
\* weights 0..MaxBmSeed, MaxEpoch training epochs, gibbs_sample called with k
\* up to MaxSweeps
MaxUnits == 2
MaxCells == 2
MaxBmSeed == 1
MaxEpoch == 1
MaxSweeps == 1
\* langevin_sample: batches of up to MaxLvRows rows, steps up to MaxLvSteps,
\* noise and initial draws 0..MaxNoise, MaxLvEpoch training epochs
MaxLvRows == 2
MaxLvSteps == 2
MaxNoise == 1
MaxLvEpoch == 2

\* float32: exp(t) is exactly 0 for t <= -104 (e^-104 < 2^-150), and a float32
\* softmax entry is non-zero while its score lies less than 80 below the largest
ExpUnderflow == 104
ExpSafe == 80

\* config['d_embed'] of the notebook's language model
DEmbed == 64

\* ----------------------------------------------------------------- helpers
RECURSIVE SeqSum(_)
SeqSum(s) == IF s = <<>> THEN 0 ELSE s[1] + SeqSum(Tail(s))

RECURSIVE SeqProd(_)
SeqProd(s) == IF s = <<>> THEN 1 ELSE s[1] * SeqProd(Tail(s))

RECURSIVE SetMax(_)
SetMax(S) ==
  LET a == CHOOSE e \in S : TRUE
  IN IF S = {a} THEN a
     ELSE LET m == SetMax(S \ {a}) IN IF a > m THEN a ELSE m

\* ------------------------------------------- polynomials in y and quotients
\* A polynomial is a function from its exponents to its non-zero coefficients.
PolyZero == [k \in {} |-> 0]

Mono(k, c) == IF c = 0 THEN PolyZero ELSE [e \in {k} |-> c]

Coef(p, k) == IF k \in DOMAIN p THEN p[k] ELSE 0

PolyAdd(p, q) ==
  LET nz == {k \in (DOMAIN p) \cup (DOMAIN q) : Coef(p, k) + Coef(q, k) # 0}
  IN [k \in nz |-> Coef(p, k) + Coef(q, k)]

PolyScale(c, p) == IF c = 0 THEN PolyZero ELSE [k \in DOMAIN p |-> c * p[k]]

RECURSIVE ConvAt(_, _, _, _)
ConvAt(p, q, k, as) ==
  IF as = {} THEN 0
  ELSE LET a == CHOOSE e \in as : TRUE
       IN p[a] * Coef(q, k - a) + ConvAt(p, q, k, as \ {a})

PolyMul(p, q) ==
  LET ks == {a + b : a \in DOMAIN p, b \in DOMAIN q}
      nz == {k \in ks : ConvAt(p, q, k, DOMAIN p) # 0}
  IN [k \in nz |-> ConvAt(p, q, k, DOMAIN p)]

\* A quotient n/d of polynomials; d = 0 is NaN.
Rat(n, d) == [n |-> n, d |-> d]

RatInt(c) == Rat(Mono(0, c), Mono(0, 1))

RatNaN == Rat(PolyZero, PolyZero)

IsNaN(r) == r.d = PolyZero

RatAdd(r, s) ==
  IF r.d = s.d THEN Rat(PolyAdd(r.n, s.n), r.d)
  ELSE Rat(PolyAdd(PolyMul(r.n, s.d), PolyMul(s.n, r.d)), PolyMul(r.d, s.d))

RatScale(c, r) == Rat(PolyScale(c, r.n), r.d)

\* the same real number (NaN equals nothing)
RatEq(r, s) == /\ ~IsNaN(r) /\ ~IsNaN(s)
               /\ PolyMul(r.n, s.d) = PolyMul(s.n, r.d)

RatIsZero(r) == ~IsNaN(r) /\ r.n = PolyZero

RECURSIVE RatSeqSum(_)
RatSeqSum(s) == IF s = <<>> THEN RatInt(0) ELSE RatAdd(s[1], RatSeqSum(Tail(s)))

\* --------------------------------------------------------- strided tensors
\* shape and stride are sequences; data is the flat storage; index tuples and
\* storage offsets count from 0.
ContigStride(shape) ==
  [k \in 1..Len(shape) |-> SeqProd(SubSeq(shape, k + 1, Len(shape)))]

Unravel(o, shape) ==
  LET st == ContigStride(shape)
  IN [k \in 1..Len(shape) |-> (o \div st[k]) % shape[k]]

Offset(t, idx) == SeqSum([k \in 1..Len(idx) |-> idx[k] * t.stride[k]])

At(t, idx) == t.data[Offset(t, idx) + 1]

Indices(shape) == {Unravel(o, shape) : o \in 0..(SeqProd(shape) - 1)}

\* a fresh contiguous tensor holding F(idx) at idx
Contig(shape, F(_)) ==
  [shape |-> shape, stride |-> ContigStride(shape),
   data |-> [o \in 1..SeqProd(shape) |-> F(Unravel(o - 1, shape))]]

Swap(s, a, b) ==
  [k \in 1..Len(s) |-> IF k = a THEN s[b] ELSE IF k = b THEN s[a] ELSE s[k]]

\* t.transpose(a, b), dimensions counted from 1 here
Transpose(t, a, b) ==
  [shape |-> Swap(t.shape, a, b), stride |-> Swap(t.stride, a, b), data |-> t.data]

NoStride == <<-1>>

RECURSIVE ViewWhile(_, _, _, _, _, _)
ViewWhile(newshape, view_d, view_numel, tensor_numel, base, newstride) ==
  IF view_d >= 1 /\ (view_numel < tensor_numel \/ newshape[view_d] = 1)
  THEN ViewWhile(newshape, view_d - 1, view_numel * newshape[view_d],
                 tensor_numel, base,
                 [newstride EXCEPT ![view_d] = view_numel * base])
  ELSE [view_d |-> view_d, view_numel |-> view_numel, newstride |-> newstride]

RECURSIVE TensorLoop(_, _, _, _, _, _, _, _, _)
TensorLoop(oldshape, oldstride, newshape, tensor_d, view_d, numel0, view_numel, base, newstride) ==
  IF tensor_d = 0
  THEN IF view_d # 0 THEN NoStride ELSE newstride
  ELSE
    LET tensor_numel == numel0 * oldshape[tensor_d]
        endChunk ==
          \/ tensor_d = 1
          \/ /\ oldshape[tensor_d - 1] # 1
             /\ oldstride[tensor_d - 1] # tensor_numel * base
    IN IF ~endChunk
       THEN TensorLoop(oldshape, oldstride, newshape, tensor_d - 1, view_d,
                       tensor_numel, view_numel, base, newstride)
       ELSE
         LET w == ViewWhile(newshape, view_d, view_numel, tensor_numel, base,
                            newstride)
         IN IF w.view_numel # tensor_numel THEN NoStride
            ELSE IF tensor_d > 1
            THEN TensorLoop(oldshape, oldstride, newshape, tensor_d - 1,
                            w.view_d, 1, 1, oldstride[tensor_d - 1], w.newstride)
            ELSE TensorLoop(oldshape, oldstride, newshape, 0, w.view_d,
                            tensor_numel, w.view_numel, base, w.newstride)

\* the strides under which the storage of (oldshape, oldstride) reads as
\* newshape, or NoStride when a new dimension would span two chunks of memory
ComputeStride(oldshape, oldstride, newshape) ==
  IF SeqProd(oldshape) # SeqProd(newshape) THEN NoStride
  ELSE TensorLoop(oldshape, oldstride, newshape, Len(oldshape), Len(newshape),
                  1, 1, oldstride[Len(oldstride)],
                  [k \in 1..Len(newshape) |-> 0])

ViewOk(t, newshape) == ComputeStride(t.shape, t.stride, newshape) # NoStride

\* t.view(newshape), defined when ViewOk
View(t, newshape) ==
  [shape |-> newshape, stride |-> ComputeStride(t.shape, t.stride, newshape),
   data |-> t.data]

\* the values of t, index by index
Elems(t) == [idx \in Indices(t.shape) |-> At(t, idx)]

\* ------------------------------------------------------------ nn.Linear
\* The parameters a layer may hold: selection 0 is the identity with zero bias,
\* selection w >= 1 subtracts w at a shifted column and has bias w.
WEntry(w, o, i, in) ==
  (IF i = o THEN 1 ELSE 0) - (IF w >= 1 /\ i = ((o + w - 1) % in) + 1 THEN w ELSE 0)

Linear(in, out, w) ==
  [in_features |-> in, out_features |-> out,
   weight |-> [o \in 1..out |-> [i \in 1..in |-> WEntry(w, o, i, in)]],
   bias |-> [o \in 1..out |-> w]]

SetLast(idx, v) == [idx EXCEPT ![Len(idx)] = v]

\* F.linear raises unless the last dimension is in_features
LinearOk(lin, t) == t.shape[Len(t.shape)] = lin.in_features

LinearApply(lin, t) ==
  Contig(SetLast(t.shape, lin.out_features),
         LAMBDA idx :
           SeqSum([i \in 1..lin.in_features |->
                     At(t, SetLast(idx, i - 1)) * lin.weight[idx[Len(idx)] + 1][i]])
           + lin.bias[idx[Len(idx)] + 1])

LinearApplyRat(lin, t) ==
  Contig(SetLast(t.shape, lin.out_features),
         LAMBDA idx :
           RatAdd(RatSeqSum([i \in 1..lin.in_features |->
                     RatScale(lin.weight[idx[Len(idx)] + 1][i],
                              At(t, SetLast(idx, i - 1)))]),
                  RatInt(lin.bias[idx[Len(idx)] + 1])))

\* ------------------------------------------------------ selfAttention
\* self.num_head = self.d_embed // config['d_head']
NumHead(cfg) == cfg.d_embed \div cfg.d_head

\* self.d_head = self.d_embed // self.num_head divides by zero when num_head = 0
InitRaises(cfg) == NumHead(cfg) = 0

DHead(cfg) == cfg.d_embed \div NumHead(cfg)

SelfAttention(cfg, w) ==
  [d_embed |-> cfg.d_embed,
   num_head |-> NumHead(cfg),
   d_head |-> DHead(cfg),
   W_q |-> Linear(cfg.d_embed, NumHead(cfg) * DHead(cfg), w),
   W_k |-> Linear(cfg.d_embed, NumHead(cfg) * DHead(cfg), w),
   W_v |-> Linear(cfg.d_embed, NumHead(cfg) * DHead(cfg), w),
   W_o |-> Linear(cfg.d_embed, cfg.d_embed, w)]

\* t.view(B, L, num_head, d_head).transpose(1, 2)
SplitHeads(slf, t) ==
  Transpose(View(t, <<t.shape[1], t.shape[2], slf.num_head, slf.d_head>>), 2, 3)

SplitOk(slf, t) == ViewOk(t, <<t.shape[1], t.shape[2], slf.num_head, slf.d_head>>)

\* torch.matmul on [B, H, n, k] x [B, H, k, m]: a fresh contiguous tensor
MatMul(A, Bt) ==
  Contig(<<A.shape[1], A.shape[2], A.shape[3], Bt.shape[4]>>,
         LAMBDA idx :
           SeqSum([k \in 1..A.shape[4] |->
                     At(A, <<idx[1], idx[2], idx[3], k - 1>>)
                     * At(Bt, <<idx[1], idx[2], k - 1, idx[4]>>)]))

\* scores are v / sqrt(s), or -inf
Fin(v) == [inf |-> FALSE, v |-> v, s |-> 1]

NegInf == [inf |-> TRUE, v |-> 0, s |-> 1]

ExtAdd(a, b) == IF a.inf \/ b.inf THEN NegInf ELSE Fin(a.v + b.v)

Full(shape, v) == Contig(shape, LAMBDA idx : v)

\* torch.triu(t, diagonal): keeps the entries with j - i >= diagonal, zeroes the rest
Triu(t, diagonal) ==
  Contig(t.shape, LAMBDA idx : IF idx[2] - idx[1] >= diagonal THEN At(t, idx) ELSE Fin(0))

\* the mask with diagonal=0, which hides position i from itself
CausalMaskDiagonal0(seq_len) == Triu(Full(<<seq_len, seq_len>>, NegInf), 0)

\* the mask with diagonal=2, which lets position i see position i + 1
CausalMaskDiagonal2(seq_len) == Triu(Full(<<seq_len, seq_len>>, NegInf), 2)

CausalMask(seq_len) == Triu(Full(<<seq_len, seq_len>>, NegInf), 1)

Unsqueeze0(t) ==
  [shape |-> <<1>> \o t.shape, stride |-> <<SeqProd(t.shape)>> \o t.stride, data |-> t.data]

\* QKT + mask.unsqueeze(0): [B, H, L, L] + [1, L, L] broadcasts over B and H
AddMask(qkt, m) ==
  Contig(qkt.shape,
         LAMBDA idx : ExtAdd(Fin(At(qkt, idx)), At(Unsqueeze0(m), <<0, idx[3], idx[4]>>)))

\* scores / d_embed, the square root left out
ScaleNoSqrt(sc, d_embed) ==
  Contig(sc.shape, LAMBDA idx : [At(sc, idx) EXCEPT !.s = @ * d_embed * d_embed])

\* scores / torch.sqrt(torch.tensor(d_embed))
Scale(sc, d_embed) ==
  Contig(sc.shape, LAMBDA idx : [At(sc, idx) EXCEPT !.s = @ * d_embed])

\* exp((v - m)/sqrt(s)) is exactly 0 in float32 once (m - v)/sqrt(s) >= ExpUnderflow
Underflows(k, s) == k * k >= ExpUnderflow * ExpUnderflow * s

ExpTerm(e, m) ==
  IF e.inf \/ Underflows(m - e.v, e.s) THEN PolyZero ELSE Mono(m - e.v, 1)

RECURSIVE PolySeqSum(_)
PolySeqSum(s) == IF s = <<>> THEN PolyZero ELSE PolyAdd(s[1], PolySeqSum(Tail(s)))

\* softmax of one row: exp(x - max) / sum(exp(x - max)); a row of -inf only is NaN
SoftmaxRow(row) ==
  LET fin == {j \in 1..Len(row) : ~row[j].inf}
  IN IF fin = {} THEN [j \in 1..Len(row) |-> RatNaN]
     ELSE LET m == SetMax({row[j].v : j \in fin})
              den == PolySeqSum([j \in 1..Len(row) |-> ExpTerm(row[j], m)])
          IN [j \in 1..Len(row) |-> Rat(ExpTerm(row[j], m), den)]

\* softmax along dim=-2, the query dimension
SoftmaxDim2(sc) ==
  Contig(sc.shape,
         LAMBDA idx :
           SoftmaxRow([i \in 1..sc.shape[3] |->
                         At(sc, <<idx[1], idx[2], i - 1, idx[4]>>)])[idx[3] + 1])

\* F.softmax(scores, dim=-1): every row along the last dimension by itself
Softmax(sc) ==
  LET last == Len(sc.shape)
      rows == [p \in Indices(SubSeq(sc.shape, 1, last - 1)) |->
                 SoftmaxRow([j \in 1..sc.shape[last] |-> At(sc, Append(p, j - 1))])]
  IN  Contig(sc.shape, LAMBDA idx : rows[SubSeq(idx, 1, last - 1)][idx[last] + 1])

\* torch.matmul(attentions_weights, V)
MatMulW(w, v) ==
  Contig(<<w.shape[1], w.shape[2], w.shape[3], v.shape[4]>>,
         LAMBDA idx :
           RatSeqSum([k \in 1..w.shape[4] |->
                        RatScale(At(v, <<idx[1], idx[2], k - 1, idx[4]>>),
                                 At(w, <<idx[1], idx[2], idx[3], k - 1>>))]))

\* attn.transpose(0, 1)
MergeTranspose(a) == Transpose(a, 1, 2)

\* attn.view(batch_size, seq_len, self.num_head * self.d_head)
MergeShape(slf, xs) == <<xs[1], xs[2], slf.num_head * slf.d_head>>

\* the forward pass as one function of the module and its input
FwdQ(slf, xin) == SplitHeads(slf, LinearApply(slf.W_q, xin))

FwdK(slf, xin) == SplitHeads(slf, LinearApply(slf.W_k, xin))

FwdV(slf, xin) == SplitHeads(slf, LinearApply(slf.W_v, xin))

FwdWeights(slf, xin) ==
  Softmax(Scale(AddMask(MatMul(FwdQ(slf, xin), Transpose(FwdK(slf, xin), 3, 4)),
                        CausalMask(xin.shape[2])),
                xin.shape[3]))

FwdAttn(slf, xin) == MergeTranspose(MatMulW(FwdWeights(slf, xin), FwdV(slf, xin)))

FwdReturns(slf, xin) ==
  /\ LinearOk(slf.W_q, xin)
  /\ ViewOk(FwdAttn(slf, xin), MergeShape(slf, xin.shape))
  /\ LinearOk(slf.W_o, View(FwdAttn(slf, xin), MergeShape(slf, xin.shape)))

Forward(slf, xin) ==
  LinearApplyRat(slf.W_o, View(FwdAttn(slf, xin), MergeShape(slf, xin.shape)))

\* ------------------------------------------------------------------ inputs
\* The rows an input position may hold: row 0 is zero, row t >= 1 holds
\* 10(t-1) + d + 1 at feature d, so that scores far apart occur as well as
\* scores close together.
Row(t, d) == IF t = 0 THEN 0 ELSE 10 * (t - 1) + d + 1

\* batch element b holds the rows toks[l] + b (mod MaxTok + 1)
Input(B, L, D, toks) ==
  Contig(<<B, L, D>>,
         LAMBDA idx : Row((toks[idx[2] + 1] + idx[1]) % (MaxTok + 1), idx[3]))

\* ------------------------------------------------------------------- state
VARIABLES config, self, x, pc, err, Q, K, V, QKT, mask, scores,
          attentions_weights, attn, attn_output, called_before,
          tokenizer, LLM, model, prompt, max_new_tokens, top_k, ipc, ierr,
          generated, step, hidden, outputs, next_token_logits, topk_indices,
          next_token, result

avars == <<config, self, x, pc, err, Q, K, V, QKT, mask, scores,
           attentions_weights, attn, attn_output, called_before>>

\* the arguments of inference and the notebook's globals it reads
iin == <<tokenizer, LLM, model, prompt, max_new_tokens, top_k>>

ivars == <<iin, ipc, ierr, generated, step, hidden, outputs, next_token_logits,
           topk_indices, next_token, result>>

NoTensor == [shape |-> <<>>, stride |-> <<>>, data |-> <<>>]

\* PositionalEncoding: the config, the locals of __init__, the buffer, and the
\* argument and result of forward
VARIABLES pe_config, pe, position, div_term, pe_x, pe_out, ppc, perr

pvars == <<pe_config, pe, position, div_term, pe_x, pe_out, ppc, perr>>

\* LanguageModel: the config, the object and the values of its parameters, the
\* argument of forward, the value of x as a term, its shape, the input and the
\* sublayer calls of the Transformer block that is running, the modules forward
\* has applied, and the index of the block
VARIABLES lm_config, lm, lm_params, input_ids, lx, lshape, bx, blog, llog, layer,
          lpc, lerr

mvars == <<lm_config, lm, lm_params, input_ids, lx, lshape, bx, blog, llog, layer,
           lpc, lerr>>

\* Tokenizer and embedding calls: the dataset, the Tokenizer, the argument the
\* caller started from, the argument of the last call, the calls made, what the
\* last call returned
VARIABLES tk_dataset, tkz, tk_in, tk_arg, tk_ops, tk_ret, tkpc, tkerr

tvars == <<tk_dataset, tkz, tk_in, tk_arg, tk_ops, tk_ret, tkpc, tkerr>>

\* FullyVisibleBM and its training loop: the data, the model, the epochs done,
\* the locals of the loop; of a gibbs_sample call, the tensors v0 and v name,
\* v0 as it was passed, k, the sweeps done, the units the call has resampled so
\* far, the last activation, and who called
VARIABLES n_visible, data, bm, epoch, v_model, grad_W, grad_b, gh, v0_at_call,
          gk, gsweep, glog, gp, gcaller, bpc

gfvars == <<gh, v0_at_call, gk, gsweep, glog, gp, gcaller>>

bvars == <<n_visible, data, bm, epoch, v_model, grad_W, grad_b, gfvars, bpc>>

\* NeuralEBM and its training loop: the rows of a batch, the model, x_neg, the
\* epochs done; of a langevin_sample call, x_init, the local x, steps, the
\* gradient in hand, the noise drawn so far, the tensor returned, and the
\* model and x_init as they were at the call
VARIABLES srows, ebm, x_neg, sepoch, sx_init, sx, ssteps, sgrad, snoise, sret,
          ebm_at_call, sx_at_call, spc

svars == <<srows, ebm, x_neg, sepoch, sx_init, sx, ssteps, sgrad, snoise, sret, ebm_at_call, sx_at_call, spc>>

\* what the steps of selfAttention leave alone, and those of inference, of
\* PositionalEncoding, of LanguageModel, of the Tokenizer calls, of the
\* Boltzmann machine and of the Langevin sampler
nonAttn == <<ivars, pvars, mvars, tvars, bvars, svars>>

nonInf == <<avars, pvars, mvars, tvars, bvars, svars>>

nonPe == <<avars, ivars, mvars, tvars, bvars, svars>>

nonLm == <<avars, ivars, pvars, tvars, bvars, svars>>

nonTk == <<avars, ivars, pvars, mvars, bvars, svars>>

nonBm == <<avars, ivars, pvars, mvars, tvars, svars>>

nonLv == <<avars, ivars, pvars, mvars, tvars, bvars>>

vars == <<avars, ivars, pvars, mvars, tvars, bvars, svars>>

\* no NeuralEBM is in use
NoLangevin ==
  /\ srows = 0 /\ ebm = <<>> /\ x_neg = <<>> /\ sepoch = 0 /\ sx_init = <<>>
  /\ sx = <<>> /\ ssteps = 0 /\ sgrad = <<>> /\ snoise = <<>> /\ sret = <<>>
  /\ ebm_at_call = <<>> /\ sx_at_call = <<>> /\ spc = "idle"

\* no Boltzmann machine is in use
NoBoltzmann ==
  /\ n_visible = 0 /\ data = <<>> /\ bm = <<>> /\ epoch = 0 /\ v_model = <<>>
  /\ grad_W = <<>> /\ grad_b = <<>>
  /\ gh = [v |-> "", store |-> [v0 |-> <<>>, v |-> <<>>]]
  /\ v0_at_call = <<>> /\ gk = 0 /\ gsweep = 0 /\ glog = <<>> /\ gp = <<>>
  /\ gcaller = "" /\ bpc = "idle"

\* no Tokenizer call is under way
NoVocabulary ==
  /\ tk_dataset = <<>> /\ tkz = <<>>
  /\ tk_in = [type |-> "none", items |-> <<>>] /\ tk_arg = [type |-> "none", items |-> <<>>]
  /\ tk_ops = <<>> /\ tk_ret = [type |-> "none", items |-> <<>>]
  /\ tkpc = "idle" /\ tkerr = ""

NoTerm == [op |-> "none", layer |-> 0, args |-> <<>>]

\* no LanguageModel is under construction or in use
NoLanguageModel ==
  /\ lm_config = [d_embed |-> 0, d_head |-> 0, d_mlp |-> 0, num_layers |-> 0,
                  vocab_size |-> 0, max_len |-> 0]
  /\ lm = <<>> /\ lm_params = <<>> /\ input_ids = NoTensor /\ lx = NoTerm
  /\ lshape = <<>> /\ bx = NoTerm /\ blog = <<>> /\ llog = <<>> /\ layer = 0
  /\ lpc = "idle" /\ lerr = ""

\* no PositionalEncoding is under construction or in use
NoPosEnc ==
  /\ pe_config = [max_len |-> 0, d_embed |-> 0]
  /\ pe = NoTensor /\ position = <<>> /\ div_term = <<>>
  /\ pe_x = NoTensor /\ pe_out = NoTensor /\ ppc = "idle" /\ perr = ""

NoModel == [vocab_size |-> 0, d_embed |-> 0, max_len |-> 0, seed |-> 0]

NoTokenizer == [vocab_size |-> 0, char2idx |-> <<>>, idx2char |-> <<>>]

\* no call of inference is in progress
NoInference ==
  /\ tokenizer = NoTokenizer /\ LLM = NoModel /\ model = NoModel
  /\ prompt = <<>> /\ max_new_tokens = 0 /\ top_k = 0
  /\ ipc = "idle" /\ ierr = "" /\ generated = <<>> /\ step = 0
  /\ hidden = <<>> /\ outputs = <<>> /\ next_token_logits = <<>>
  /\ topk_indices = <<>> /\ next_token = 0 /\ result = <<>>


NoSelf == [d_embed |-> 0, num_head |-> 0, d_head |-> 0]

Configs == [d_embed : 1..MaxD, d_head : 1..MaxD]

\* no selfAttention is under construction or in use
NoAttention ==
  /\ config = [d_embed |-> 1, d_head |-> 1]
  /\ self = NoSelf /\ x = NoTensor /\ pc = "idle" /\ err = ""
  /\ Q = NoTensor /\ K = NoTensor /\ V = NoTensor /\ QKT = NoTensor
  /\ mask = NoTensor /\ scores = NoTensor /\ attentions_weights = NoTensor
  /\ attn = NoTensor /\ attn_output = NoTensor /\ called_before = FALSE

AttnInit ==
  /\ config \in Configs
  /\ self = NoSelf
  /\ x = NoTensor
  /\ pc = "new"
  /\ err = ""
  /\ Q = NoTensor /\ K = NoTensor /\ V = NoTensor
  /\ QKT = NoTensor /\ mask = NoTensor /\ scores = NoTensor
  /\ attentions_weights = NoTensor /\ attn = NoTensor
  /\ attn_output = NoTensor
  /\ called_before = FALSE
  /\ NoInference
  /\ NoPosEnc
  /\ NoLanguageModel
  /\ NoVocabulary
  /\ NoBoltzmann
  /\ NoLangevin

\* selfAttention.__init__(config); the layers' parameters are any of 0..MaxW
Construct ==
  /\ pc = "new"
  /\ UNCHANGED <<nonAttn, called_before>>
  /\ IF InitRaises(config)
     THEN /\ pc' = "raised" /\ err' = "ZeroDivisionError" /\ self' = self
     ELSE /\ \E w \in 0..MaxW : self' = SelfAttention(config, w)
          /\ pc' = "ready" /\ err' = err
  /\ UNCHANGED <<config, x, Q, K, V, QKT, mask, scores, attentions_weights,
                 attn, attn_output>>

\* a call forward(x) with x of shape [B, L, d_embed], on a new object or on one
\* whose earlier calls are over
Call ==
  /\ pc = "ready"
  /\ UNCHANGED <<nonAttn, called_before>>
  /\ \E B \in 1..MaxB, L \in 1..MaxL :
       \E toks \in [1..L -> 0..MaxTok] :
         x' = Input(B, L, self.d_embed, toks)
  /\ pc' = "called"
  /\ UNCHANGED <<config, self, err, Q, K, V, QKT, mask, scores,
                 attentions_weights, attn, attn_output>>

\* the call is over, by return or by exception: its frame and with it every
\* local of forward is gone, and the object can be called again
Exit ==
  /\ \/ pc = "returned"
     \/ pc = "raised" /\ self # NoSelf
  /\ UNCHANGED nonAttn
  /\ called_before' = TRUE
  /\ pc' = "ready" /\ err' = ""
  /\ x' = NoTensor
  /\ Q' = NoTensor /\ K' = NoTensor /\ V' = NoTensor /\ QKT' = NoTensor
  /\ mask' = NoTensor /\ scores' = NoTensor /\ attentions_weights' = NoTensor
  /\ attn' = NoTensor /\ attn_output' = NoTensor
  /\ UNCHANGED <<config, self>>

\* Q = self.W_q(x); K = self.W_k(x); V = self.W_v(x)
Project ==
  /\ pc = "called"
  /\ UNCHANGED <<nonAttn, called_before>>
  /\ IF LinearOk(self.W_q, x)
     THEN /\ Q' = LinearApply(self.W_q, x)
          /\ K' = LinearApply(self.W_k, x)
          /\ V' = LinearApply(self.W_v, x)
          /\ pc' = "projected" /\ err' = err
     ELSE /\ pc' = "raised" /\ err' = "linear" /\ UNCHANGED <<Q, K, V>>
  /\ UNCHANGED <<config, self, x, QKT, mask, scores, attentions_weights, attn,
                 attn_output>>

\* Q, K, V = their views [B, L, num_head, d_head] transposed to [B, H, L, d_head]
Split ==
  /\ pc = "projected"
  /\ UNCHANGED <<nonAttn, called_before>>
  /\ IF SplitOk(self, Q)
     THEN /\ Q' = SplitHeads(self, Q)
          /\ K' = SplitHeads(self, K)
          /\ V' = SplitHeads(self, V)
          /\ pc' = "split" /\ err' = err
     ELSE /\ pc' = "raised" /\ err' = "view" /\ UNCHANGED <<Q, K, V>>
  /\ UNCHANGED <<config, self, x, QKT, mask, scores, attentions_weights, attn,
                 attn_output>>

\* QKT = torch.matmul(Q, K.transpose(-2, -1))
Scores ==
  /\ pc = "split"
  /\ UNCHANGED <<nonAttn, called_before>>
  /\ QKT' = MatMul(Q, Transpose(K, 3, 4))
  /\ pc' = "qkt"
  /\ UNCHANGED <<config, self, x, err, Q, K, V, mask, scores,
                 attentions_weights, attn, attn_output>>

\* mask = torch.triu(torch.full((seq_len, seq_len), -inf), diagonal=1)
Mask ==
  /\ pc = "qkt"
  /\ UNCHANGED <<nonAttn, called_before>>
  /\ mask' = CausalMask(x.shape[2])
  /\ pc' = "mask"
  /\ UNCHANGED <<config, self, x, err, Q, K, V, QKT, scores,
                 attentions_weights, attn, attn_output>>

\* scores = QKT + mask.unsqueeze(0)
Masked ==
  /\ pc = "mask"
  /\ UNCHANGED <<nonAttn, called_before>>
  /\ scores' = AddMask(QKT, mask)
  /\ pc' = "masked"
  /\ UNCHANGED <<config, self, x, err, Q, K, V, QKT, mask,
                 attentions_weights, attn, attn_output>>

\* scores = scores / torch.sqrt(torch.tensor(d_embed)), d_embed from x.shape
Scaled ==
  /\ pc = "masked"
  /\ UNCHANGED <<nonAttn, called_before>>
  /\ scores' = Scale(scores, x.shape[3])
  /\ pc' = "scaled"
  /\ UNCHANGED <<config, self, x, err, Q, K, V, QKT, mask,
                 attentions_weights, attn, attn_output>>

\* attentions_weights = F.softmax(scores, dim=-1)
SoftmaxStep ==
  /\ pc = "scaled"
  /\ UNCHANGED <<nonAttn, called_before>>
  /\ attentions_weights' = Softmax(scores)
  /\ pc' = "softmax"
  /\ UNCHANGED <<config, self, x, err, Q, K, V, QKT, mask, scores, attn,
                 attn_output>>

\* attn = torch.matmul(attentions_weights, V)
Attend ==
  /\ pc = "softmax"
  /\ UNCHANGED <<nonAttn, called_before>>
  /\ attn' = MatMulW(attentions_weights, V)
  /\ pc' = "attended"
  /\ UNCHANGED <<config, self, x, err, Q, K, V, QKT, mask, scores,
                 attentions_weights, attn_output>>

\* attn = attn.transpose(0, 1)
Transposed ==
  /\ pc = "attended"
  /\ UNCHANGED <<nonAttn, called_before>>
  /\ attn' = MergeTranspose(attn)
  /\ pc' = "transposed"
  /\ UNCHANGED <<config, self, x, err, Q, K, V, QKT, mask, scores,
                 attentions_weights, attn_output>>

\* attn = attn.view(batch_size, seq_len, self.num_head * self.d_head)
Viewed ==
  /\ pc = "transposed"
  /\ UNCHANGED <<nonAttn, called_before>>
  /\ IF ViewOk(attn, MergeShape(self, x.shape))
     THEN /\ attn' = View(attn, MergeShape(self, x.shape))
          /\ pc' = "viewed" /\ err' = err
     ELSE /\ pc' = "raised" /\ err' = "view" /\ attn' = attn
  /\ UNCHANGED <<config, self, x, Q, K, V, QKT, mask, scores,
                 attentions_weights, attn_output>>

\* attn_output = self.W_o(attn); return attn_output
Output ==
  /\ pc = "viewed"
  /\ UNCHANGED <<nonAttn, called_before>>
  /\ IF LinearOk(self.W_o, attn)
     THEN /\ attn_output' = LinearApplyRat(self.W_o, attn)
          /\ pc' = "returned" /\ err' = err
     ELSE /\ pc' = "raised" /\ err' = "linear" /\ attn_output' = attn_output
  /\ UNCHANGED <<config, self, x, Q, K, V, QKT, mask, scores,
                 attentions_weights, attn>>

AttnNext ==
  \/ Construct \/ Call \/ Project \/ Split \/ Scores \/ Mask \/ Masked
  \/ Scaled \/ SoftmaxStep \/ Attend \/ Transposed \/ Viewed \/ Output
  \/ Exit

SpecAttention == AttnInit /\ [][AttnNext]_vars

\* ------------------------------------------------------------------ Tokenizer
RECURSIVE Sorted(_)
\* sorted(list(S)): the elements of S in ascending order
Sorted(S) ==
  IF S = {} THEN <<>>
  ELSE LET m == CHOOSE a \in S : \A b \in S : a <= b
       IN  <<m>> \o Sorted(S \ {m})

\* set(text): the distinct characters of a text (characters are numbers)
CharSet(text) == {text[i] : i \in 1..Len(text)}

\* a text over the n characters 1, 3, .., 2n - 1, unsorted and with repeats
Dataset(n) == [i \in 1..(n + MaxPrompt) |-> 2 * ((n - i) % n) + 1]

\* the prompts tried: the pieces of the text of up to MaxPrompt characters, the
\* empty one included, and one with a character the text does not have
Prompts(text) ==
  {SubSeq(text, i, i + len - 1) : i \in 1..(Len(text) - MaxPrompt), len \in 0..MaxPrompt}
    \cup {<<0>>}

\* Tokenizer.__init__(dataset)
Tokenizer(dataset) ==
  LET chars == Sorted(CharSet(dataset))
  IN  [vocab_size |-> Len(chars),
       char2idx |-> [ch \in CharSet(dataset) |->
                       (CHOOSE i \in 1..Len(chars) : chars[i] = ch) - 1],
       idx2char |-> [i \in 0..(Len(chars) - 1) |-> chars[i + 1]]]

\* self.char2idx[ch] raises KeyError for a character outside the vocabulary
EncodeOk(tk, text) == \A i \in 1..Len(text) : text[i] \in DOMAIN tk.char2idx

\* enumerate(chars, 1): the indices start at 1
EncodeOneBased(tk, text) == [i \in 1..Len(text) |-> tk.char2idx[text[i]] + 1]

\* Tokenizer.encode(text)
Encode(tk, text) == [i \in 1..Len(text) |-> tk.char2idx[text[i]]]

\* self.idx2char[idx] raises KeyError for an index that is not a key
DecodeOk(tk, indices) == \A i \in 1..Len(indices) : indices[i] \in DOMAIN tk.idx2char

\* Tokenizer.decode(indices)
Decode(tk, indices) == [i \in 1..Len(indices) |-> tk.idx2char[indices[i]]]

\* ------------------------------------------- PositionalEncoding, LanguageModel
Min(a, b) == IF a <= b THEN a ELSE b

\* config of the notebook, its vocab_size taken from the tokenizer
Config(tk, max_len) == [d_embed |-> DEmbed, vocab_size |-> tk.vocab_size, max_len |-> max_len]

\* LanguageModel.__init__(config); seed stands for the values of its parameters
LanguageModel(cfg, seed) ==
  [vocab_size |-> cfg.vocab_size, d_embed |-> cfg.d_embed, max_len |-> cfg.max_len,
   seed |-> seed]

\* nn.Embedding takes integer indices below vocab_size; torch.tensor([]) is a
\* float tensor, which it rejects
EmbeddingOk(m, ids) ==
  /\ Len(ids) > 0
  /\ \A i \in 1..Len(ids) : ids[i] \in 0..(m.vocab_size - 1)

\* the shape of self.embedding(x) for x of shape [1, L]
EmbeddingShape(m, ids) == <<1, Len(ids), m.d_embed>>

\* the shape of self.pe[:, :seq_len], pe being [1, max_len, d_embed]
PeSlice(m, seq_len) == <<1, Min(seq_len, m.max_len), m.d_embed>>

\* two shapes of equal rank broadcast when each pair of sizes is equal or has a 1
BroadcastOk(a, b) == \A k \in 1..Len(a) : a[k] = b[k] \/ a[k] = 1 \/ b[k] = 1

BroadcastShape(a, b) == [k \in 1..Len(a) |-> IF a[k] = 1 THEN b[k] ELSE a[k]]

\* PositionalEncoding.forward(x): x + self.pe[:, :seq_len]
PosEncOk(m, xs) == BroadcastOk(xs, PeSlice(m, xs[2]))

PosEncShape(m, xs) == BroadcastShape(xs, PeSlice(m, xs[2]))

\* a digest of a token sequence that tells sequences and orders apart
Mix(seq) == SeqSum([q \in 1..Len(seq) |-> q * (seq[q] + 1)])

\* the logit the transformer stack and head of the model give vocabulary index
\* v at position p of seq: some function of the parameters and the sequence
LogitAt(m, seq, p, v) == ((m.seed + 1) * (v + 1) + Mix(seq) * (v + 2) + p * (v + 1)) % 4

\* LanguageModel.forward(x) after the positional encoding: logits [L][vocab]
Logits(m, seq) ==
  [p \in 1..Len(seq) |-> [v \in 1..m.vocab_size |-> LogitAt(m, seq, p, v - 1)]]

\* ------------------------------------------------------------------ inference
\* for _ in range(n): the loop body runs while the counter is below n
RangeInclusive(n, i) == i <= n

RangeHas(n, i) == i < n

\* logits[0, 0, :], the first position
FirstPosition(lg) == lg[1]

\* logits[0, -1, :]
LastPosition(lg) == lg[Len(lg)]

\* torch.topk needs k within the length of its input
TopKOk(lg, k) == k <= Len(lg)

\* the k smallest entries in ascending order (largest=False)
BottomK(lg, k) ==
  {s \in [1..k -> 0..(Len(lg) - 1)] :
     /\ \A i, j \in 1..k : i < j => s[i] # s[j] /\ lg[s[i] + 1] <= lg[s[j] + 1]
     /\ \A v \in 0..(Len(lg) - 1) :
          (\A i \in 1..k : s[i] # v) => \A i \in 1..k : lg[v + 1] >= lg[s[i] + 1]}

\* the index tuples torch.topk(lg, k) may return: k distinct indices of largest
\* entries in descending order of value; the order among equal entries is open
TopK(lg, k) ==
  {s \in [1..k -> 0..(Len(lg) - 1)] :
     /\ \A i, j \in 1..k : i < j => s[i] # s[j] /\ lg[s[i] + 1] >= lg[s[j] + 1]
     /\ \A v \in 0..(Len(lg) - 1) :
          (\A i \in 1..k : s[i] # v) => \A i \in 1..k : lg[v + 1] <= lg[s[i] + 1]}

\* the state at the entry of inference(model, tokenizer, prompt, max_new_tokens,
\* top_k), with the notebook's globals tokenizer and LLM built
InferenceInit ==
  /\ \E n \in 1..MaxVocab :
       /\ tokenizer = Tokenizer(Dataset(n))
       /\ prompt \in Prompts(Dataset(n))
  /\ \E max_len \in 1..MaxLenCfg, seed \in 0..MaxModel :
       LLM = LanguageModel(Config(tokenizer, max_len), seed)
  /\ \E other \in 0..1 : model = [LLM EXCEPT !.seed = (LLM.seed + other) % (MaxModel + 1)]
  /\ max_new_tokens \in 0..MaxNew
  /\ top_k \in 1..(MaxVocab + 1)
  /\ ipc = "start" /\ ierr = "" /\ generated = <<>> /\ step = 0
  /\ hidden = <<>> /\ outputs = <<>> /\ next_token_logits = <<>>
  /\ topk_indices = <<>> /\ next_token = 0 /\ result = <<>>
  /\ config = [d_embed |-> 1, d_head |-> 1]
  /\ self = NoSelf /\ x = NoTensor /\ pc = "idle" /\ err = ""
  /\ Q = NoTensor /\ K = NoTensor /\ V = NoTensor /\ QKT = NoTensor
  /\ mask = NoTensor /\ scores = NoTensor /\ attentions_weights = NoTensor
  /\ attn = NoTensor /\ attn_output = NoTensor /\ called_before = FALSE
  /\ NoPosEnc
  /\ NoLanguageModel
  /\ NoVocabulary
  /\ NoBoltzmann
  /\ NoLangevin

\* model.eval(); input_ids = torch.tensor(tokenizer.encode(prompt));
\* generated = input_ids.unsqueeze(0)
Tokenize ==
  /\ ipc = "start"
  /\ IF EncodeOk(tokenizer, prompt)
     THEN /\ generated' = Encode(tokenizer, prompt)
          /\ ipc' = "loop" /\ ierr' = ierr
     ELSE /\ ipc' = "raised" /\ ierr' = "KeyError" /\ generated' = generated
  /\ UNCHANGED <<iin, step, hidden, outputs, next_token_logits, topk_indices,
                 next_token, result>>
  /\ UNCHANGED nonInf

\* a loop iteration begins: LLM(generated) runs x = self.embedding(x)
Embed ==
  /\ ipc = "loop"
  /\ RangeHas(max_new_tokens, step)
  /\ IF EmbeddingOk(LLM, generated)
     THEN /\ hidden' = EmbeddingShape(LLM, generated)
          /\ ipc' = "embedded" /\ ierr' = ierr
     ELSE /\ ipc' = "raised" /\ ierr' = "embedding" /\ hidden' = hidden
  /\ UNCHANGED <<iin, generated, step, outputs, next_token_logits, topk_indices,
                 next_token, result>>
  /\ UNCHANGED nonInf

\* x = self.posEnc(x)
PosEnc ==
  /\ ipc = "embedded"
  /\ IF PosEncOk(LLM, hidden)
     THEN /\ hidden' = PosEncShape(LLM, hidden)
          /\ ipc' = "encoded" /\ ierr' = ierr
     ELSE /\ ipc' = "raised" /\ ierr' = "broadcast" /\ hidden' = hidden
  /\ UNCHANGED <<iin, generated, step, outputs, next_token_logits, topk_indices,
                 next_token, result>>
  /\ UNCHANGED nonInf

\* the transformers and the head; outputs = LLM(generated);
\* next_token_logits = logits[0, -1, :]
Stack ==
  /\ ipc = "encoded"
  /\ outputs' = Logits(LLM, generated)
  /\ next_token_logits' = LastPosition(Logits(LLM, generated))
  /\ hidden' = <<hidden[1], hidden[2], LLM.vocab_size>>
  /\ ipc' = "logits"
  /\ UNCHANGED <<iin, ierr, generated, step, topk_indices, next_token, result>>
  /\ UNCHANGED nonInf

\* topk_logits, topk_indices = torch.topk(next_token_logits, top_k)
TopKStep ==
  /\ ipc = "logits"
  /\ IF TopKOk(next_token_logits, top_k)
     THEN /\ topk_indices' \in TopK(next_token_logits, top_k)
          /\ ipc' = "topk" /\ ierr' = ierr
     ELSE /\ ipc' = "raised" /\ ierr' = "topk" /\ topk_indices' = topk_indices
  /\ UNCHANGED <<iin, generated, step, hidden, outputs, next_token_logits,
                 next_token, result>>
  /\ UNCHANGED nonInf

\* probs = softmax(topk_logits); next_token = topk_indices[multinomial(probs, 1)];
\* generated = torch.cat([generated, next_token.unsqueeze(0)], dim=1)
Sample ==
  /\ ipc = "topk"
  /\ \E i \in 1..top_k :
       /\ next_token' = topk_indices[i]
       /\ generated' = Append(generated, topk_indices[i])
  /\ step' = step + 1
  /\ ipc' = "loop"
  /\ UNCHANGED <<iin, ierr, hidden, outputs, next_token_logits, topk_indices,
                 result>>
  /\ UNCHANGED nonInf

\* the loop is over: return tokenizer.decode(generated[0].tolist())
Return ==
  /\ ipc = "loop"
  /\ ~RangeHas(max_new_tokens, step)
  /\ result' = Decode(tokenizer, generated)
  /\ ipc' = "returned"
  /\ UNCHANGED <<iin, ierr, generated, step, hidden, outputs, next_token_logits,
                 topk_indices, next_token>>
  /\ UNCHANGED nonInf

InferenceNext ==
  \/ Tokenize \/ Embed \/ PosEnc \/ Stack \/ TopKStep \/ Sample \/ Return

SpecInference == InferenceInit /\ [][InferenceNext]_vars

\* --------------------------------------------------------- PositionalEncoding
\* An entry of the table is a term: 0 as torch.zeros left it, or sin or cos of
\* pos * exp(e * -(log(10000) / d_embed)), e the even number of its column pair.
ZeroTerm == [fn |-> "zero", pos |-> 0, e |-> 0]

Trig(fn, pos, e) == [fn |-> fn, pos |-> pos, e |-> e]

\* the terms whose value is exactly 0: the argument of sin is 0 * w = 0
TermIsZero(t) == t.fn = "zero" \/ (t.fn = "sin" /\ t.pos = 0)

\* the terms whose value is exactly 1: the argument of cos is 0 * w = 0
TermIsOne(t) == t.fn = "cos" /\ t.pos = 0

\* torch.zeros(max_len, d_embed)
Zeros(rows, cols) == Contig(<<rows, cols>>, LAMBDA idx : ZeroTerm)

\* torch.arange(0, max_len).unsqueeze(1): the positions 0..max_len - 1
Positions(max_len) == [p \in 1..max_len |-> p - 1]

\* torch.arange(0, d_embed, 2): the even numbers below d_embed, one per
\* column pair, (d_embed + 1) \div 2 of them
DivTerm(d_embed) == [k \in 1..((d_embed + 1) \div 2) |-> 2 * (k - 1)]

\* the number of columns of pe[:, start::2]
StrideCols(cols, start) == IF cols <= start THEN 0 ELSE (cols - start + 1) \div 2

\* pe[:, start::2] = value needs the value's column count to be that of the
\* slice, or 1
AssignOk(t, start, n) == n = StrideCols(t.shape[2], start) \/ n = 1

\* the assignment written to the columns of the other parity
AssignShifted(t, start, fn, pos, div) ==
  Contig(t.shape,
         LAMBDA idx :
           IF idx[2] >= start /\ (idx[2] - start) % 2 = 1
           THEN Trig(fn, pos[idx[1] + 1],
                     div[IF Len(div) = 1 THEN 1 ELSE (idx[2] - start) \div 2 + 1])
           ELSE At(t, idx))

\* pe[:, start::2] = fn(position * div_term)
Assign(t, start, fn, pos, div) ==
  Contig(t.shape,
         LAMBDA idx :
           IF idx[2] >= start /\ (idx[2] - start) % 2 = 0
           THEN Trig(fn, pos[idx[1] + 1],
                     div[IF Len(div) = 1 THEN 1 ELSE (idx[2] - start) \div 2 + 1])
           ELSE At(t, idx))

\* pe[:, 0::2] = torch.sin(position * div_term)
AssignSin(t, pos, div) == Assign(t, 0, "sin", pos, div)

\* pe[:, 1::2] = torch.cos(position * div_term)
AssignCos(t, pos, div) == Assign(t, 1, "cos", pos, div)

\* x + self.pe[:, :seq_len]: entry (b, l, d) is x[b, l, d] plus a table term
PeAdd(xin, buf) ==
  LET sl == PeSlice(pe_config, xin.shape[2])
  IN  Contig(BroadcastShape(xin.shape, sl),
             LAMBDA idx : [x |-> At(xin, idx),
                           pe |-> At(buf, <<0, IF sl[2] = 1 THEN 0 ELSE idx[2], idx[3]>>)])

PeConfigs == [max_len : 1..MaxLenCfg, d_embed : 1..MaxDEmbed]

PosEncInit ==
  /\ pe_config \in PeConfigs
  /\ pe = NoTensor /\ position = <<>> /\ div_term = <<>>
  /\ pe_x = NoTensor /\ pe_out = NoTensor /\ ppc = "new" /\ perr = ""
  /\ NoAttention
  /\ NoInference
  /\ NoLanguageModel
  /\ NoVocabulary
  /\ NoBoltzmann
  /\ NoLangevin

\* pe = torch.zeros(config['max_len'], config['d_embed'])
PeZeros ==
  /\ ppc = "new"
  /\ pe' = Zeros(pe_config.max_len, pe_config.d_embed)
  /\ ppc' = "zeros"
  /\ UNCHANGED <<pe_config, position, div_term, pe_x, pe_out, perr, nonPe>>

\* position = ...; div_term = ...
PeTerms ==
  /\ ppc = "zeros"
  /\ position' = Positions(pe_config.max_len)
  /\ div_term' = DivTerm(pe_config.d_embed)
  /\ ppc' = "terms"
  /\ UNCHANGED <<pe_config, pe, pe_x, pe_out, perr, nonPe>>

\* pe[:, 0::2] = torch.sin(position * div_term)
PeSin ==
  /\ ppc = "terms"
  /\ IF AssignOk(pe, 0, Len(div_term))
     THEN /\ pe' = AssignSin(pe, position, div_term)
          /\ ppc' = "sin" /\ perr' = perr
     ELSE /\ ppc' = "raised" /\ perr' = "assign" /\ pe' = pe
  /\ UNCHANGED <<pe_config, position, div_term, pe_x, pe_out, nonPe>>

\* pe[:, 1::2] = torch.cos(position * div_term)
PeCos ==
  /\ ppc = "sin"
  /\ IF AssignOk(pe, 1, Len(div_term))
     THEN /\ pe' = AssignCos(pe, position, div_term)
          /\ ppc' = "cos" /\ perr' = perr
     ELSE /\ ppc' = "raised" /\ perr' = "assign" /\ pe' = pe
  /\ UNCHANGED <<pe_config, position, div_term, pe_x, pe_out, nonPe>>

\* pe = pe.unsqueeze(0); self.register_buffer('pe', pe); __init__ returns and
\* its locals are gone
PeRegister ==
  /\ ppc = "cos"
  /\ pe' = Unsqueeze0(pe)
  /\ position' = <<>> /\ div_term' = <<>>
  /\ ppc' = "ready"
  /\ UNCHANGED <<pe_config, pe_x, pe_out, perr, nonPe>>

\* a call forward(x) with x of shape [B, L, d_embed]
PeCall ==
  /\ ppc = "ready"
  /\ \E B \in 1..MaxB, L \in 1..(MaxLenCfg + 1) :
       pe_x' = Input(B, L, pe_config.d_embed, [l \in 1..L |-> l % (MaxTok + 1)])
  /\ ppc' = "called"
  /\ UNCHANGED <<pe_config, pe, position, div_term, pe_out, perr, nonPe>>

\* seq_len = x.size(1); x = x + self.pe[:, :seq_len]; return x
PeForward ==
  /\ ppc = "called"
  /\ IF PosEncOk(pe_config, pe_x.shape)
     THEN /\ pe_out' = PeAdd(pe_x, pe)
          /\ ppc' = "returned" /\ perr' = perr
     ELSE /\ ppc' = "raised" /\ perr' = "broadcast" /\ pe_out' = pe_out
  /\ UNCHANGED <<pe_config, pe, position, div_term, pe_x, nonPe>>

\* the call is over, by return or by exception
PeExit ==
  /\ \/ ppc = "returned"
     \/ ppc = "raised" /\ perr = "broadcast"
  /\ pe_x' = NoTensor /\ pe_out' = NoTensor
  /\ ppc' = "ready" /\ perr' = ""
  /\ UNCHANGED <<pe_config, pe, position, div_term, nonPe>>

PosEncNext ==
  \/ PeZeros \/ PeTerms \/ PeSin \/ PeCos \/ PeRegister \/ PeCall \/ PeForward
  \/ PeExit

SpecPosEnc == PosEncInit /\ [][PosEncNext]_vars

\* ------------------------------------------ MLP, Transformer, LanguageModel
\* self.d_mlp = 4 * self.d_embed
MlpFactor == 4

\* A module's params are the ids of its parameter tensors: two modules share a
\* tensor exactly when they hold a common id.  The value of tensor k is
\* lm_params[k].
MLP(cfg, base) ==
  [d_embed |-> cfg.d_embed,
   d_mlp |-> MlpFactor * cfg.d_embed,
   up_projection |-> [in_features |-> cfg.d_embed,
                      out_features |-> MlpFactor * cfg.d_embed,
                      params |-> {base + 1, base + 2}],
   down_projection |-> [in_features |-> MlpFactor * cfg.d_embed,
                        out_features |-> cfg.d_embed,
                        params |-> {base + 3, base + 4}]]

MlpParams(m) == m.up_projection.params \cup m.down_projection.params

\* nn.RMSNorm(config['d_embed']): one weight
RMSNorm(d, base) == [normalized_shape |-> d, params |-> {base + 1}]

\* the four nn.Linear of selfAttention, a weight and a bias each
AttentionParams(base) == (base + 1)..(base + Cardinality({"W_q", "W_k", "W_v", "W_o"} \X {"weight", "bias"}))

\* Transformer.__init__ raises what selfAttention.__init__ raises
TransformerRaises(cfg) == InitRaises([d_embed |-> cfg.d_embed, d_head |-> cfg.d_head])

Transformer(cfg, base) ==
  LET a == AttentionParams(base)
      n1 == RMSNorm(cfg.d_embed, base + Cardinality(a))
      m == MLP(cfg, base + Cardinality(a) + Cardinality(n1.params))
      n2 == RMSNorm(cfg.d_embed,
                    base + Cardinality(a) + Cardinality(n1.params)
                         + Cardinality(MlpParams(m)))
  IN  [attention |-> [self |-> SelfAttention([d_embed |-> cfg.d_embed, d_head |-> cfg.d_head], 0),
                      params |-> a],
       rmsnorm1 |-> n1,
       mlp |-> m,
       rmsnorm2 |-> n2]

BlockParams(blk) ==
  blk.attention.params \cup blk.rmsnorm1.params \cup MlpParams(blk.mlp) \cup blk.rmsnorm2.params

\* the number of parameter tensors of one block
BlockSize(cfg) == Cardinality(BlockParams(Transformer(cfg, 0)))

\* [Transformer(config) for _ in range(self.num_layers)]: every element is a
\* new object with new parameter tensors
TransformerList(cfg, base) ==
  [i \in 1..cfg.num_layers |-> Transformer(cfg, base + (i - 1) * BlockSize(cfg))]

\* the table PositionalEncoding.__init__ registers
PeTable(cfg) ==
  Unsqueeze0(AssignCos(AssignSin(Zeros(cfg.max_len, cfg.d_embed),
                                 Positions(cfg.max_len), DivTerm(cfg.d_embed)),
                       Positions(cfg.max_len), DivTerm(cfg.d_embed)))

\* PositionalEncoding.__init__ raises when a column slice and the sin or cos
\* table differ in width
PeInitRaises(cfg) ==
  \/ ~AssignOk(Zeros(cfg.max_len, cfg.d_embed), 0, Len(DivTerm(cfg.d_embed)))
  \/ ~AssignOk(Zeros(cfg.max_len, cfg.d_embed), 1, Len(DivTerm(cfg.d_embed)))

\* LanguageModel.__init__ raises in PositionalEncoding or in the first block
LmInitError(cfg) ==
  IF PeInitRaises(cfg) THEN "assign"
  ELSE IF cfg.num_layers >= 1 /\ TransformerRaises(cfg) THEN "ZeroDivisionError"
  ELSE ""

\* the object LanguageModel.__init__ builds: the embedding weight is tensor 1,
\* the blocks' tensors follow, the head's weight and bias come last
LanguageModelObject(cfg) ==
  LET blocks == TransformerList(cfg, 1)
      last == IF cfg.num_layers = 0 THEN 1 ELSE 1 + cfg.num_layers * BlockSize(cfg)
  IN  [num_layers |-> cfg.num_layers,
       vocab_size |-> cfg.vocab_size,
       d_embed |-> cfg.d_embed,
       embedding |-> [num_embeddings |-> cfg.vocab_size, embedding_dim |-> cfg.d_embed,
                      params |-> {1}],
       posEnc |-> [max_len |-> cfg.max_len, d_embed |-> cfg.d_embed, pe |-> PeTable(cfg)],
       transformers |-> blocks,
       head |-> [in_features |-> cfg.d_embed, out_features |-> cfg.vocab_size,
                 params |-> {last + 1, last + 2}]]

LmParams(m) ==
  m.embedding.params \cup m.head.params
  \cup UNION {BlockParams(m.transformers[i]) : i \in 1..Len(m.transformers)}

\* the values the constructors draw for the parameter tensors
InitialParams(m, seed) == [k \in LmParams(m) |-> (seed + k) % (MaxModel + 1)]

\* x as a term: the module or operation that produced it, the block it belongs
\* to (0 outside the blocks) and the terms it was applied to
Term(op, k, args) == [op |-> op, layer |-> k, args |-> args]

\* x + sublayer(x) drops the residual
NoResidual(xt, sub) == sub

\* x + sublayer(x)
Residual(xt, sub) == Term("add", 0, <<xt, sub>>)

\* MLP.forward: relu(up_projection(x)), then down_projection
MlpForward(k, xt) ==
  Term("down_projection", k, <<Term("relu", k, <<Term("up_projection", k, <<xt>>)>>)>>)

\* self.pe = x + self.pe[:, :seq_len]: the sum is bound to the buffer's name
BufferRebound(buf, xs) == Contig(xs, LAMBDA idx : Trig("sum", idx[2], idx[3]))

\* x = x + self.pe[:, :seq_len] reads the buffer and allocates the sum: the
\* buffer after the statement
BufferAfterAdd(buf, xs) == buf

\* selfAttention.forward returns on an input of shape xs: whether it does is
\* decided by shapes and strides alone, those of the contiguous
\* [B, H, L, d_head] product that is transposed and viewed
AttentionReturns(slf, xs) ==
  /\ xs[3] = slf.W_q.in_features
  /\ ViewOk(MergeTranspose(Contig(<<xs[1], slf.num_head, xs[2], slf.d_head>>, LAMBDA idx : 0)),
            MergeShape(slf, xs))
  /\ MergeShape(slf, xs)[3] = slf.W_o.in_features

\* indexing the embedding weight as a tensor is indexed: a negative index
\* counts from the end
LookupOkWrapping(emb, t) ==
  \A idx \in Indices(t.shape) : At(t, idx) \in (0 - emb.num_embeddings)..(emb.num_embeddings - 1)

\* nn.Embedding raises IndexError unless every index is in [0, num_embeddings)
LookupOk(emb, t) ==
  \A idx \in Indices(t.shape) : At(t, idx) \in 0..(emb.num_embeddings - 1)

\* the index tensors forward is called with: entry (b, l) is (b + l) mod
\* vocab_size, or with bad = "high" or "negative" the last entry is vocab_size
\* or -1
InputIds(B, L, vocab, bad) ==
  Contig(<<B, L>>,
         LAMBDA idx : IF idx = <<B - 1, L - 1>> /\ bad = "high" THEN vocab
                      ELSE IF idx = <<B - 1, L - 1>> /\ bad = "negative" THEN 0 - 1
                      ELSE (idx[1] + idx[2]) % vocab)

\* the configurations: d_mlp is 4 or 8, which is 4 * d_embed for some and is
\* not for others
LmConfigs ==
  [d_embed : 1..MaxD, d_head : 1..MaxD, d_mlp : {MlpFactor, MlpFactor + MlpFactor},
   num_layers : 0..MaxLayers, vocab_size : {MaxVocab}, max_len : {1, MaxLmLen}]

NoCall ==
  /\ input_ids = NoTensor /\ lx = NoTerm /\ lshape = <<>> /\ bx = NoTerm
  /\ blog = <<>> /\ llog = <<>> /\ layer = 0

LmInit ==
  /\ lm_config \in LmConfigs
  /\ lm = <<>> /\ lm_params = <<>>
  /\ NoCall
  /\ lpc = "new" /\ lerr = ""
  /\ NoAttention
  /\ NoInference
  /\ NoPosEnc
  /\ NoVocabulary
  /\ NoBoltzmann
  /\ NoLangevin

\* LanguageModel(config)
LmConstruct ==
  /\ lpc = "new"
  /\ IF LmInitError(lm_config) = ""
     THEN /\ lm' = LanguageModelObject(lm_config)
          /\ \E seed \in {0, MaxModel} : lm_params' = InitialParams(lm', seed)
          /\ lpc' = "ready" /\ lerr' = lerr
     ELSE /\ lpc' = "raised" /\ lerr' = LmInitError(lm_config)
          /\ UNCHANGED <<lm, lm_params>>
  /\ UNCHANGED <<lm_config, input_ids, lx, lshape, bx, blog, llog, layer, nonLm>>

\* a call forward(x) with x an index tensor of shape [B, L]
LmCall ==
  /\ lpc = "ready"
  /\ \E B \in 1..MaxB, L \in {1, MaxLmLen, MaxLmLen + 1}, bad \in {"none", "high", "negative"} :
       /\ input_ids' = InputIds(B, L, lm.vocab_size, bad)
       /\ lshape' = <<B, L>>
  /\ lx' = Term("x", 0, <<>>)
  /\ lpc' = "called"
  /\ UNCHANGED <<lm_config, lm, lm_params, bx, blog, llog, layer, lerr, nonLm>>

\* x = self.embedding(x)
LmEmbed ==
  /\ lpc = "called"
  /\ IF LookupOk(lm.embedding, input_ids)
     THEN /\ lx' = Term("embedding", 0, <<lx>>)
          /\ lshape' = Append(lshape, lm.embedding.embedding_dim)
          /\ llog' = Append(llog, [module |-> "embedding", index |-> 0])
          /\ lpc' = "embedded" /\ lerr' = lerr
     ELSE /\ lpc' = "raised" /\ lerr' = "IndexError"
          /\ UNCHANGED <<lx, lshape, llog>>
  /\ UNCHANGED <<lm_config, lm, lm_params, input_ids, bx, blog, layer, nonLm>>

\* x = self.posEnc(x)
LmPosEnc ==
  /\ lpc = "embedded"
  /\ IF PosEncOk(lm.posEnc, lshape)
     THEN /\ lx' = Term("posEnc", 0, <<lx>>)
          /\ lshape' = PosEncShape(lm.posEnc, lshape)
          /\ lm' = [lm EXCEPT !.posEnc.pe = BufferAfterAdd(lm.posEnc.pe, lshape)]
          /\ llog' = Append(llog, [module |-> "posEnc", index |-> 0])
          /\ layer' = 1
          /\ lpc' = "loop" /\ lerr' = lerr
     ELSE /\ lpc' = "raised" /\ lerr' = "broadcast"
          /\ UNCHANGED <<lm, lx, lshape, llog, layer>>
  /\ UNCHANGED <<lm_config, lm_params, input_ids, bx, blog, nonLm>>

\* for transformer in self.transformers: the next block is called with x
LmEnter ==
  /\ lpc = "loop"
  /\ layer <= Len(lm.transformers)
  /\ bx' = lx
  /\ blog' = <<>>
  /\ llog' = Append(llog, [module |-> "transformers", index |-> layer])
  /\ lpc' = "block"
  /\ UNCHANGED <<lm_config, lm, lm_params, input_ids, lx, lshape, layer, lerr, nonLm>>

\* x = x + self.attention(x)
TAttend ==
  /\ lpc = "block"
  /\ IF AttentionReturns(lm.transformers[layer].attention.self, lshape)
     THEN /\ lx' = Residual(lx, Term("attention", layer, <<lx>>))
          /\ blog' = Append(blog, [module |-> "attention", input |-> lx])
          /\ lpc' = "attended" /\ lerr' = lerr
     ELSE /\ lpc' = "raised" /\ lerr' = "view"
          /\ UNCHANGED <<lx, blog>>
  /\ UNCHANGED <<lm_config, lm, lm_params, input_ids, lshape, bx, llog, layer, nonLm>>

\* x = self.rmsnorm1(x)
TNorm1 ==
  /\ lpc = "attended"
  /\ lx' = Term("rmsnorm1", layer, <<lx>>)
  /\ blog' = Append(blog, [module |-> "rmsnorm1", input |-> lx])
  /\ lpc' = "norm1"
  /\ UNCHANGED <<lm_config, lm, lm_params, input_ids, lshape, bx, llog, layer, lerr, nonLm>>

\* x = x + self.mlp(x)
TMlp ==
  /\ lpc = "norm1"
  /\ lx' = Residual(lx, MlpForward(layer, lx))
  /\ blog' = Append(blog, [module |-> "mlp", input |-> lx])
  /\ lpc' = "mlp"
  /\ UNCHANGED <<lm_config, lm, lm_params, input_ids, lshape, bx, llog, layer, lerr, nonLm>>

\* x = self.rmsnorm2(x); return x: the loop goes on to the next block
TNorm2 ==
  /\ lpc = "mlp"
  /\ lx' = Term("rmsnorm2", layer, <<lx>>)
  /\ blog' = Append(blog, [module |-> "rmsnorm2", input |-> lx])
  /\ layer' = layer + 1
  /\ lpc' = "loop"
  /\ UNCHANGED <<lm_config, lm, lm_params, input_ids, lshape, bx, llog, lerr, nonLm>>

\* the list is exhausted: x = self.head(x); return x
LmHead ==
  /\ lpc = "loop"
  /\ layer > Len(lm.transformers)
  /\ lx' = Term("head", 0, <<lx>>)
  /\ lshape' = SetLast(lshape, lm.head.out_features)
  /\ llog' = Append(llog, [module |-> "head", index |-> 0])
  /\ lpc' = "returned"
  /\ UNCHANGED <<lm_config, lm, lm_params, input_ids, bx, blog, layer, lerr, nonLm>>

\* the call is over, by return or by exception
LmExit ==
  /\ \/ lpc = "returned"
     \/ lpc = "raised" /\ lerr \in {"IndexError", "broadcast", "view"}
  /\ input_ids' = NoTensor /\ lx' = NoTerm /\ lshape' = <<>> /\ bx' = NoTerm
  /\ blog' = <<>> /\ llog' = <<>> /\ layer' = 0
  /\ lpc' = "ready" /\ lerr' = ""
  /\ UNCHANGED <<lm_config, lm, lm_params, nonLm>>

LmNext ==
  \/ LmConstruct \/ LmCall \/ LmEmbed \/ LmPosEnc \/ LmEnter \/ TAttend \/ TNorm1
  \/ TMlp \/ TNorm2 \/ LmHead \/ LmExit

SpecLanguageModel == LmInit /\ [][LmNext]_vars

\* ------------------------------------------------------- Tokenizer: calls
\* Python values: a str of characters, a list of indices, the shape of a
\* tensor, or nothing
Str(s) == [type |-> "str", items |-> s]

List(s) == [type |-> "list", items |-> s]

TensorOfShape(s) == [type |-> "tensor", items |-> s]

None == [type |-> "none", items |-> <<>>]

\* Tokenizer.encode(text) as Python sees it: a list comprehension over text
EncodeValue(t, text) == List(Encode(t, text.items))

\* Tokenizer.decode(indices) as Python sees it: ''.join of a list comprehension
DecodeValue(t, indices) == Str(Decode(t, indices.items))

\* the texts encode is called with: up to MaxPrompt characters of the dataset
\* or the absent character 0
Texts(dataset) ==
  UNION {[1..n -> CharSet(dataset) \cup {0}] : n \in 0..MaxPrompt}

\* the index sequences decode and the embedding are called with: up to
\* MaxPrompt indices from -1 to vocab_size
IndexSeqs(vocab) == UNION {[1..n -> (0 - 1)..vocab] : n \in 0..MaxPrompt}

\* nn.Embedding(self.vocab_size, self.d_embed) for config['vocab_size'] =
\* tokenizer.vocab_size
EmbeddingFor(t) == [num_embeddings |-> t.vocab_size, embedding_dim |-> DEmbed, params |-> {1}]

\* torch.tensor([indices]): a [1, L] tensor
Batch(indices) == Contig(<<1, Len(indices)>>, LAMBDA idx : indices[idx[2] + 1])

VocabularyInit ==
  /\ \E n \in 1..MaxVocab : tk_dataset = Dataset(n)
  /\ tkz = <<>> /\ tk_in = None /\ tk_arg = None /\ tk_ops = <<>> /\ tk_ret = None
  /\ tkpc = "new" /\ tkerr = ""
  /\ NoAttention
  /\ NoInference
  /\ NoPosEnc
  /\ NoLanguageModel
  /\ NoBoltzmann
  /\ NoLangevin

\* tokenizer = Tokenizer(dataset)
TkConstruct ==
  /\ tkpc = "new"
  /\ tkz' = Tokenizer(tk_dataset)
  /\ tkpc' = "ready"
  /\ UNCHANGED <<tk_dataset, tk_in, tk_arg, tk_ops, tk_ret, tkerr, nonTk>>

\* tokenizer.encode(text), of a new text or of what decode has just returned
TkEncode ==
  /\ \/ /\ tkpc = "ready"
        /\ \E text \in Texts(tk_dataset) : tk_arg' = Str(text)
        /\ tk_in' = tk_arg'
     \/ /\ tkpc = "returned" /\ tk_ops = <<"decode">>
        /\ tk_arg' = tk_ret
        /\ tk_in' = tk_in
  /\ tk_ops' = Append(tk_ops, "encode")
  /\ IF EncodeOk(tkz, tk_arg'.items)
     THEN /\ tk_ret' = EncodeValue(tkz, tk_arg')
          /\ tkpc' = "returned" /\ tkerr' = tkerr
     ELSE /\ tk_ret' = None
          /\ tkpc' = "raised" /\ tkerr' = "KeyError"
  /\ UNCHANGED <<tk_dataset, tkz, nonTk>>

\* tokenizer.decode(indices), of a new list or of what encode has just returned
TkDecode ==
  /\ \/ /\ tkpc = "ready"
        /\ \E indices \in IndexSeqs(tkz.vocab_size) : tk_arg' = List(indices)
        /\ tk_in' = tk_arg'
     \/ /\ tkpc = "returned" /\ tk_ops = <<"encode">>
        /\ tk_arg' = tk_ret
        /\ tk_in' = tk_in
  /\ tk_ops' = Append(tk_ops, "decode")
  /\ IF DecodeOk(tkz, tk_arg'.items)
     THEN /\ tk_ret' = DecodeValue(tkz, tk_arg')
          /\ tkpc' = "returned" /\ tkerr' = tkerr
     ELSE /\ tk_ret' = None
          /\ tkpc' = "raised" /\ tkerr' = "KeyError"
  /\ UNCHANGED <<tk_dataset, tkz, nonTk>>

\* x = self.embedding(x) on a [1, L] tensor of new indices
TkEmbed ==
  /\ tkpc = "ready"
  /\ \E indices \in IndexSeqs(tkz.vocab_size) : tk_arg' = List(indices)
  /\ tk_in' = tk_arg'
  /\ tk_ops' = Append(tk_ops, "embedding")
  /\ IF LookupOk(EmbeddingFor(tkz), Batch(tk_arg'.items))
     THEN /\ tk_ret' = TensorOfShape(<<1, Len(tk_arg'.items), EmbeddingFor(tkz).embedding_dim>>)
          /\ tkpc' = "returned" /\ tkerr' = tkerr
     ELSE /\ tk_ret' = None
          /\ tkpc' = "raised" /\ tkerr' = "IndexError"
  /\ UNCHANGED <<tk_dataset, tkz, nonTk>>

\* the caller is done with the result or the exception
TkExit ==
  /\ tkpc \in {"returned", "raised"}
  /\ tk_in' = None /\ tk_arg' = None /\ tk_ops' = <<>> /\ tk_ret' = None
  /\ tkpc' = "ready" /\ tkerr' = ""
  /\ UNCHANGED <<tk_dataset, tkz, nonTk>>

VocabularyNext == TkConstruct \/ TkEncode \/ TkDecode \/ TkEmbed \/ TkExit

SpecVocabulary == VocabularyInit /\ [][VocabularyNext]_vars

\* --------------------------------------------------------- FullyVisibleBM
\* Numbers.  W, v_bias and the activations are integers in units of lr / N,
\* N the number of data rows: one SGD step adds to W the difference of two sums
\* of N outer products of 0/1 rows.  The energy is kept doubled, to stay
\* integral.  torch.bernoulli(p) may return 0 or 1 for every p the sigmoid of
\* bounded activations gives.

\* gibbs_sample(..., k=10) in the training loop
TrainK == 10

\* torch.randn(n_visible, n_visible) * 0.01: some matrix, neither symmetric nor
\* of zero diagonal in general
InitW(n, seed) == [i \in 1..n |-> [j \in 1..n |-> (((seed + 1) * (2 * i + j)) % 3) - 1]]

\* torch.ones(n_visible, n_visible): no entry is masked
OnesMask(n) == [i \in 1..n |-> [j \in 1..n |-> 1]]

\* 1 - torch.eye(n_visible)
EyeMask(n) == [i \in 1..n |-> [j \in 1..n |-> IF i = j THEN 0 ELSE 1]]

\* FullyVisibleBM.__init__(n_visible); the .grad of a new parameter is None
FullyVisibleBM(n, seed) ==
  [W |-> InitW(n, seed), mask |-> EyeMask(n), v_bias |-> [i \in 1..n |-> 0],
   W_grad |-> <<>>, v_bias_grad |-> <<>>]

\* self.W * self.mask
WMasked(m) == [i \in 1..Len(m.W) |-> [j \in 1..Len(m.W) |-> m.W[i][j] * m.mask[i][j]]]

\* FullyVisibleBM.energy(v), doubled, of one row:
\* 2 * (-0.5 * sum((v @ W_masked) * v) - v . v_bias)
Energy2(m, row) ==
  0 - SeqSum([i \in 1..Len(row) |->
                SeqSum([j \in 1..Len(row) |-> row[j] * WMasked(m)[j][i]]) * row[i]])
    - 2 * SeqSum([i \in 1..Len(row) |-> row[i] * m.v_bias[i]])

\* the argument of the sigmoid in cond_prob(v, l), row by row:
\* torch.matmul(v, W_masked[:, l])
Activation(m, v, l) ==
  [r \in 1..Len(v) |-> SeqSum([j \in 1..Len(v[r]) |-> v[r][j] * WMasked(m)[j][l + 1]])]

\* v[:, i] = col
SetColumn(v, i, col) == [r \in 1..Len(v) |-> [v[r] EXCEPT ![i + 1] = col[r]]]

\* the 0/1 tensors of N rows and n columns
BinaryTensors(N, n) == [1..N -> [1..n -> {0, 1}]]

\* range(v.size(1)): the units in the order a sweep visits them
Units(n) == [t \in 1..n |-> t - 1]

\* v0 itself: v names the caller's tensor
Alias(h) == [h EXCEPT !.v = "v0"]

\* v = v0.clone(): v names a new tensor with the values of v0
Clone(h) == [h EXCEPT !.v = "v", !.store = [h.store EXCEPT !.v = h.store.v0]]

\* torch.einsum('nd,ne->de', v, v): the sum over the rows of their outer products
OuterSum(v, n) ==
  [i \in 1..n |-> [j \in 1..n |-> SeqSum([r \in 1..Len(v) |-> v[r][i] * v[r][j]])]]

\* v.mean(dim=0), times the number of rows
ColumnSum(v, n) == [i \in 1..n |-> SeqSum([r \in 1..Len(v) |-> v[r][i]])]

\* the data: row r holds 1 at the columns j with r + j even
Data(N, n) == [r \in 1..N |-> [j \in 1..n |-> IF (r + j) % 2 = 0 THEN 1 ELSE 0]]

\* grad_W = data_corr - model_corr, times the number of rows
GradW(dat, vm, n) ==
  [i \in 1..n |-> [j \in 1..n |-> OuterSum(dat, n)[i][j] - OuterSum(vm, n)[i][j]]]

\* grad_b = data_mean - model_mean, times the number of rows
GradB(dat, vm, n) ==
  [i \in 1..n |-> ColumnSum(dat, n)[i] - ColumnSum(vm, n)[i]]

\* bm.W.grad = -grad_W: the mask is left out
UnmaskedGrad(m, gW) == [i \in 1..Len(gW) |-> [j \in 1..Len(gW) |-> 0 - gW[i][j]]]

\* bm.W.grad = -grad_W * bm.mask
MaskedGrad(m, gW) ==
  [i \in 1..Len(gW) |-> [j \in 1..Len(gW) |-> (0 - gW[i][j]) * m.mask[i][j]]]

\* opt.step() of SGD: each parameter loses lr times its .grad; in units of
\* lr / N with the gradients held times N, it loses its .grad
SgdStep(m) ==
  [m EXCEPT !.W = [i \in 1..Len(m.W) |-> [j \in 1..Len(m.W) |-> m.W[i][j] - m.W_grad[i][j]]],
            !.v_bias = [i \in 1..Len(m.W) |-> m.v_bias[i] - m.v_bias_grad[i]]]

\* the tensor the local v of gibbs_sample names
Chain == gh.store[gh.v]

NoHeap == [v |-> "", store |-> [v0 |-> <<>>, v |-> <<>>]]

\* the frame of a gibbs_sample call with arguments v0 and k
GibbsFrame(v0, kk, who) ==
  /\ gh' = [v |-> "", store |-> [v0 |-> v0, v |-> <<>>]]
  /\ v0_at_call' = v0
  /\ gk' = kk /\ gsweep' = 0 /\ glog' = <<>> /\ gp' = <<>>
  /\ gcaller' = who

NoFrame ==
  /\ gh = NoHeap /\ v0_at_call = <<>> /\ gk = 0 /\ gsweep = 0 /\ glog = <<>>
  /\ gp = <<>> /\ gcaller = ""

BmInit ==
  /\ \E n \in 1..MaxUnits :
       /\ n_visible = n
       /\ \E N \in 1..(MaxCells \div n) : data = Data(N, n)
  /\ bm = <<>> /\ epoch = 0 /\ v_model = <<>> /\ grad_W = <<>> /\ grad_b = <<>>
  /\ NoFrame
  /\ bpc = "new"
  /\ NoAttention
  /\ NoInference
  /\ NoPosEnc
  /\ NoLanguageModel
  /\ NoVocabulary
  /\ NoLangevin

\* bm = FullyVisibleBM(n_visible)
BmConstruct ==
  /\ bpc = "new"
  /\ \E seed \in 0..MaxBmSeed : bm' = FullyVisibleBM(n_visible, seed)
  /\ bpc' = "ready"
  /\ UNCHANGED <<n_visible, data, epoch, v_model, grad_W, grad_b, gfvars, nonBm>>

\* an epoch begins: v_model = bm.gibbs_sample(torch.bernoulli(torch.full_like(data, 0.5)), k=10)
\* is called
TrainSample ==
  /\ bpc = "ready"
  /\ epoch < MaxEpoch
  /\ \E v0 \in BinaryTensors(Len(data), n_visible) : GibbsFrame(v0, TrainK, "train")
  /\ bpc' = "called"
  /\ UNCHANGED <<n_visible, data, bm, epoch, v_model, grad_W, grad_b, nonBm>>

\* bm.gibbs_sample(init, k) is called outside the training loop
GibbsCall ==
  /\ bpc = "ready"
  /\ \E v0 \in BinaryTensors(Len(data), n_visible), kk \in 0..MaxSweeps :
       GibbsFrame(v0, kk, "caller")
  /\ bpc' = "called"
  /\ UNCHANGED <<n_visible, data, bm, epoch, v_model, grad_W, grad_b, nonBm>>

\* v = v0.clone()
GibbsClone ==
  /\ bpc = "called"
  /\ gh' = Clone(gh)
  /\ bpc' = "sweeping"
  /\ UNCHANGED <<n_visible, data, bm, epoch, v_model, grad_W, grad_b, v0_at_call,
                 gk, gsweep, glog, gp, gcaller, nonBm>>

\* p = self.cond_prob(v, i); v[:, i] = torch.bernoulli(p), for the next unit
\* of the sweep
GibbsUnit ==
  /\ bpc = "sweeping"
  /\ RangeHas(gk, gsweep)
  /\ Len(glog) < (gsweep + 1) * n_visible
  /\ LET i == Units(n_visible)[Len(glog) - gsweep * n_visible + 1]
     IN  /\ gp' = Activation(bm, Chain, i)
         /\ \E col \in [1..Len(data) -> {0, 1}] :
              gh' = [gh EXCEPT !.store[gh.v] = SetColumn(Chain, i, col)]
         /\ glog' = Append(glog, i)
  /\ UNCHANGED <<n_visible, data, bm, epoch, v_model, grad_W, grad_b, v0_at_call,
                 gk, gsweep, gcaller, bpc, nonBm>>

\* the units are exhausted: the sweep is over
GibbsSweepEnd ==
  /\ bpc = "sweeping"
  /\ RangeHas(gk, gsweep)
  /\ Len(glog) = (gsweep + 1) * n_visible
  /\ gsweep' = gsweep + 1
  /\ UNCHANGED <<n_visible, data, bm, epoch, v_model, grad_W, grad_b, gh, v0_at_call,
                 gk, glog, gp, gcaller, bpc, nonBm>>

\* return v, into v_model in the training loop
GibbsReturn ==
  /\ bpc = "sweeping"
  /\ ~RangeHas(gk, gsweep)
  /\ IF gcaller = "train"
     THEN v_model' = Chain /\ bpc' = "sampled"
     ELSE v_model' = v_model /\ bpc' = "returned"
  /\ UNCHANGED <<n_visible, data, bm, epoch, grad_W, grad_b, gfvars, nonBm>>

\* model_mean, model_corr; grad_W = data_corr - model_corr;
\* grad_b = data_mean - model_mean.  The frame of gibbs_sample is gone.
TrainGrads ==
  /\ bpc = "sampled"
  /\ grad_W' = GradW(data, v_model, n_visible)
  /\ grad_b' = GradB(data, v_model, n_visible)
  /\ gh' = NoHeap /\ v0_at_call' = <<>>
  /\ bpc' = "grads"
  /\ UNCHANGED <<n_visible, data, bm, epoch, v_model, gk, gsweep, glog, gp, gcaller, nonBm>>

\* opt.zero_grad(); bm.W.grad = -grad_W * bm.mask; bm.v_bias.grad = -grad_b;
\* opt.step().  The epoch is over; the next one assigns v_model, grad_W and
\* grad_b before it reads them.
TrainUpdate ==
  /\ bpc = "grads"
  /\ bm' = SgdStep([bm EXCEPT !.W_grad = MaskedGrad(bm, grad_W),
                              !.v_bias_grad = [i \in 1..n_visible |-> 0 - grad_b[i]]])
  /\ epoch' = epoch + 1
  /\ v_model' = <<>> /\ grad_W' = <<>> /\ grad_b' = <<>>
  /\ gk' = 0 /\ gsweep' = 0 /\ glog' = <<>> /\ gp' = <<>> /\ gcaller' = ""
  /\ bpc' = "ready"
  /\ UNCHANGED <<n_visible, data, gh, v0_at_call, nonBm>>

\* the caller of gibbs_sample is done with the samples
BmExit ==
  /\ bpc = "returned"
  /\ gh' = NoHeap /\ v0_at_call' = <<>> /\ gk' = 0 /\ gsweep' = 0 /\ glog' = <<>>
  /\ gp' = <<>> /\ gcaller' = ""
  /\ bpc' = "ready"
  /\ UNCHANGED <<n_visible, data, bm, epoch, v_model, grad_W, grad_b, nonBm>>

BmNext ==
  \/ BmConstruct \/ TrainSample \/ GibbsCall \/ GibbsClone \/ GibbsUnit
  \/ GibbsSweepEnd \/ GibbsReturn \/ TrainGrads \/ TrainUpdate \/ BmExit

SpecBM == BmInit /\ [][BmNext]_vars

\* ------------------------------------------------- NeuralEBM, langevin_sample
\* Tensors are records of a shape, a value, the storage they live in and
\* requires_grad.  Values are terms: a draw of randn, or one Langevin update of
\* an earlier value under parameters theta with one draw of noise.  The
\* parameters of the model are a version number, counted up by opt.step; their
\* accumulated .grad is the sequence of the contributions added since
\* zero_grad, empty for None.

\* torch.randn(rows, 1), draw c
Randn(rows, c) ==
  [shape |-> <<rows, 1>>, val |-> [op |-> "randn", prev |-> <<>>, theta |-> 0, noise |-> c],
   storage |-> 1, requires_grad |-> FALSE]

\* model = NeuralEBM(); no backward pass has run
NeuralEBM == [theta |-> 0, grad |-> <<>>]

NoSample == [shape |-> <<>>, val |-> <<>>, storage |-> 0, requires_grad |-> FALSE]

\* x_init.clone().detach().requires_grad_(True): a new storage with the same
\* content
CloneDetach(t) == [t EXCEPT !.storage = t.storage + 1, !.requires_grad = TRUE]

\* E.backward(): the gradient reaches the parameters as well and is added to
\* their .grad
Backward(mdl, xt) ==
  [grad |-> [x |-> xt.val, theta |-> mdl.theta],
   model |-> [mdl EXCEPT !.grad = Append(mdl.grad, [x |-> xt.val, theta |-> mdl.theta])]]

\* E = model(x).sum(); torch.autograd.grad(E, x)[0]: the gradient with respect
\* to x is returned, no .grad is written
AutogradGrad(mdl, xt) == [grad |-> [x |-> xt.val, theta |-> mdl.theta], model |-> mdl]

\* x - step_size * grad + noise_scale * torch.randn_like(x), then
\* .detach().requires_grad_(True): a new tensor of the shape of x
LangevinUpdate(xt, g, eps) ==
  [shape |-> xt.shape,
   val |-> [op |-> "step", prev |-> <<g.x>>, theta |-> g.theta, noise |-> eps],
   storage |-> xt.storage + 1, requires_grad |-> TRUE]

\* x.detach(): the same storage, outside the graph
Detach(t) == [t EXCEPT !.requires_grad = FALSE]

\* loss = E_pos - E_neg; opt.zero_grad(); loss.backward(); opt.step()
TrainStep(mdl, neg) ==
  [theta |-> mdl.theta + 1, grad |-> <<[x |-> neg.val, theta |-> mdl.theta]>>]

NoSampler ==
  /\ sx_init = NoSample /\ sx = NoSample /\ ssteps = 0 /\ sgrad = <<>> /\ snoise = <<>>
  /\ sret = NoSample /\ ebm_at_call = <<>> /\ sx_at_call = NoSample

LvInit ==
  /\ \E rows \in 1..MaxLvRows : srows = rows
  /\ ebm = NeuralEBM
  /\ x_neg = NoSample
  /\ sepoch = 0
  /\ NoSampler
  /\ spc = "ready"
  /\ NoAttention
  /\ NoInference
  /\ NoPosEnc
  /\ NoLanguageModel
  /\ NoVocabulary
  /\ NoBoltzmann

\* x_neg = torch.randn(256, 1)
LvDraw ==
  /\ spc = "ready"
  /\ sepoch < MaxLvEpoch
  /\ \E c \in 0..MaxNoise : x_neg' = Randn(srows, c)
  /\ sret' = NoSample
  /\ spc' = "drawn"
  /\ UNCHANGED <<srows, ebm, sepoch, sx_init, sx, ssteps, sgrad, snoise, ebm_at_call,
                 sx_at_call, nonLv>>

\* langevin_sample(x_neg, model, steps, step_size, noise_scale) is called
LvCall ==
  /\ spc = "drawn"
  /\ \E steps \in 0..MaxLvSteps : ssteps' = steps
  /\ sx_init' = x_neg
  /\ sx_at_call' = x_neg
  /\ ebm_at_call' = ebm
  /\ sx' = NoSample /\ sgrad' = <<>> /\ snoise' = <<>>
  /\ spc' = "called"
  /\ UNCHANGED <<srows, ebm, x_neg, sepoch, sret, nonLv>>

\* x = x_init.clone().detach().requires_grad_(True)
LvClone ==
  /\ spc = "called"
  /\ sx' = CloneDetach(sx_init)
  /\ spc' = "loop"
  /\ UNCHANGED <<srows, ebm, x_neg, sepoch, sx_init, ssteps, sgrad, snoise, sret,
                 ebm_at_call, sx_at_call, nonLv>>

\* E = model(x).sum(); grad = torch.autograd.grad(E, x)[0]
LvGrad ==
  /\ spc = "loop"
  /\ RangeHas(ssteps, Len(snoise))
  /\ sgrad' = <<AutogradGrad(ebm, sx).grad>>
  /\ ebm' = AutogradGrad(ebm, sx).model
  /\ spc' = "grad"
  /\ UNCHANGED <<srows, x_neg, sepoch, sx_init, sx, ssteps, snoise, sret, ebm_at_call,
                 sx_at_call, nonLv>>

\* x = x - step_size * grad + noise_scale * torch.randn_like(x);
\* x = x.detach().requires_grad_(True)
LvUpdate ==
  /\ spc = "grad"
  /\ \E eps \in 0..MaxNoise :
       /\ sx' = LangevinUpdate(sx, sgrad[1], eps)
       /\ snoise' = Append(snoise, eps)
  /\ sgrad' = <<>>
  /\ spc' = "loop"
  /\ UNCHANGED <<srows, ebm, x_neg, sepoch, sx_init, ssteps, sret, ebm_at_call,
                 sx_at_call, nonLv>>

\* return x.detach(), into x_neg
LvReturn ==
  /\ spc = "loop"
  /\ ~RangeHas(ssteps, Len(snoise))
  /\ sret' = Detach(sx)
  /\ x_neg' = Detach(sx)
  /\ spc' = "returned"
  /\ UNCHANGED <<srows, ebm, sepoch, sx_init, sx, ssteps, sgrad, snoise, ebm_at_call,
                 sx_at_call, nonLv>>

\* E_pos, E_neg, loss, opt.zero_grad(), loss.backward(), opt.step(): the
\* epoch is over and the frame of langevin_sample is gone
LvTrain ==
  /\ spc = "returned"
  /\ ebm' = TrainStep(ebm, x_neg)
  /\ sepoch' = sepoch + 1
  /\ sx_init' = NoSample /\ sx' = NoSample /\ ssteps' = 0 /\ sgrad' = <<>>
  /\ snoise' = <<>> /\ ebm_at_call' = <<>> /\ sx_at_call' = NoSample
  /\ spc' = "ready"
  /\ UNCHANGED <<srows, x_neg, sret, nonLv>>

LvNext == LvDraw \/ LvCall \/ LvClone \/ LvGrad \/ LvUpdate \/ LvReturn \/ LvTrain

SpecLangevin == LvInit /\ [][LvNext]_vars

\* ---------------------------------------------------- selfAttention: claims
Constructed == pc \notin {"new"} /\ self # NoSelf

InForward ==
  pc \in {"projected", "split", "qkt", "mask", "masked", "scaled", "softmax",
          "attended", "transposed", "viewed", "returned"}

\* C1: for every input [B, L, D] and every head count with D divisible by the
\* head width, forward returns normally and its result has shape [B, L, D].
C1_ForwardReturnsShape ==
  (self # NoSelf /\ self.d_embed % self.num_head = 0) =>
    /\ pc # "raised"
    /\ pc = "returned" => attn_output.shape = x.shape

\* the inputs of the shape of xin
SameShapeInputs(xin) ==
  {Input(xin.shape[1], xin.shape[2], xin.shape[3], toks) :
     toks \in [1..xin.shape[2] -> 0..MaxTok]}

\* xa and xb hold the same values in batch element b at positions 0..i
AgreeUpTo(xa, xb, b, i) ==
  \A l \in 0..i, d \in 0..(xa.shape[3] - 1) : At(xa, <<b, l, d>>) = At(xb, <<b, l, d>>)

\* C2: the output at position i depends only on the input at positions j <= i:
\* an input that agrees with x on positions 0..i of a batch element gives the
\* same output there.
C2_Causal ==
  pc = "returned" =>
    \A x2 \in SameShapeInputs(x) :
      \A b \in 0..(x.shape[1] - 1), i \in 0..(x.shape[2] - 1) :
        AgreeUpTo(x, x2, b, i) =>
          /\ FwdReturns(self, x2)
          /\ \A o \in 0..(x.shape[3] - 1) :
               RatEq(At(Forward(self, x2), <<b, i, o>>), At(attn_output, <<b, i, o>>))

\* a contiguous copy of t, as a matmul result is
Materialize(t) == Contig(t.shape, LAMBDA idx : At(t, idx))

\* the head-merge steps of forward applied to a: transpose(0, 1), then view
MergeOk(slf, a, xs) == ViewOk(MergeTranspose(a), MergeShape(slf, xs))

Merge(slf, a, xs) == View(MergeTranspose(a), MergeShape(slf, xs))

\* the merge of a gives back the tensor orig
MergesTo(slf, a, orig) ==
  /\ MergeOk(slf, a, orig.shape)
  /\ Elems(Merge(slf, a, orig.shape)) = Elems(orig)

\* C3: splitting V into heads and merging the heads with the merge steps of
\* forward gives back V element by element (on the split view itself, or on a
\* contiguous copy of it as forward's matmul produces).
C3_SplitMergeRoundTrip ==
  pc = "split" =>
    \/ MergesTo(self, V, LinearApply(self.W_v, x))
    \/ MergesTo(self, Materialize(V), LinearApply(self.W_v, x))

\* the rows (b, h, i) of a [B, H, L, L] tensor
Rows(t) == {<<b, h, i>> : b \in 0..(t.shape[1] - 1), h \in 0..(t.shape[2] - 1),
                          i \in 0..(t.shape[3] - 1)}

Cols(t) == 0..(t.shape[4] - 1)

Weight(r, j) == At(attentions_weights, <<r[1], r[2], r[3], j>>)

Score(r, j) == At(scores, <<r[1], r[2], r[3], j>>)

\* C4 as stated: row i of the weights has exactly i + 1 non-zero entries, those
\* at columns 0..i, and every entry at a column j > i is exactly zero.
C4_ExactlyIPlusOneNonZero ==
  pc = "softmax" =>
    \A r \in Rows(attentions_weights), j \in Cols(attentions_weights) :
      RatIsZero(Weight(r, j)) <=> j > r[3]

\* the score at (r, j) lies t or more below the largest score of row r, in
\* units of 1: (max - v) / sqrt(s) >= t
FarBelowRowMax(r, j, t) ==
  \E k \in 0..r[3] :
    /\ Score(r, k).v >= Score(r, j).v
    /\ (Score(r, k).v - Score(r, j).v) * (Score(r, k).v - Score(r, j).v)
         >= t * t * Score(r, j).s

\* C4 (amended): every entry at a column j > i is exactly zero, no entry is
\* NaN, and an entry at a column j <= i is non-zero whenever its scaled score
\* lies less than ExpSafe below the largest scaled score of the row; so row i has
\* between 1 and i + 1 non-zero entries, all in columns 0..i, and exactly i + 1
\* when its scores lie within ExpSafe of each other.
C4_NonZeroUpToUnderflow ==
  pc = "softmax" =>
    \A r \in Rows(attentions_weights), j \in Cols(attentions_weights) :
      /\ ~IsNaN(Weight(r, j))
      /\ j > r[3] => RatIsZero(Weight(r, j))
      /\ (j <= r[3] /\ ~FarBelowRowMax(r, j, ExpSafe)) => ~RatIsZero(Weight(r, j))

\* a row whose entry below the diagonal has underflowed to zero, beside a row
\* of i + 1 >= 2 non-zero entries
C4_Witness ==
  /\ pc = "softmax"
  /\ \E r \in Rows(attentions_weights) : \E j \in 0..(r[3] - 1) : RatIsZero(Weight(r, j))
  /\ \E r \in Rows(attentions_weights) :
       r[3] >= 1 /\ \A j \in 0..r[3] : ~RatIsZero(Weight(r, j))

\* C5: every row of the weights is a probability distribution: no entry is
\* negative (or NaN) and the entries of the row sum to 1.
C5_RowsAreDistributions ==
  pc = "softmax" =>
    \A r \in Rows(attentions_weights) :
      /\ \A j \in Cols(attentions_weights) :
           /\ ~IsNaN(Weight(r, j))
           /\ \A k \in DOMAIN Weight(r, j).n : Weight(r, j).n[k] > 0
           /\ \A k \in DOMAIN Weight(r, j).d : Weight(r, j).d[k] > 0
      /\ RatEq(RatSeqSum([j \in 1..attentions_weights.shape[4] |-> Weight(r, j - 1)]),
               RatInt(1))

\* a row holding two different non-zero weights
C5_Witness ==
  /\ pc = "softmax"
  /\ \E r \in Rows(attentions_weights) : \E j, k \in 0..r[3] :
       /\ ~RatIsZero(Weight(r, j)) /\ ~RatIsZero(Weight(r, k))
       /\ ~RatEq(Weight(r, j), Weight(r, k))

\* C6: a configuration whose embedding width is not divisible by the head width
\* never executes a projection, score or softmax step.
C6_IndivisibleRejected ==
  config.d_embed % config.d_head # 0 => ~InForward

\* ------------------------------------------------------------ inference: claims
\* the tokens inference has appended so far sit at these positions of generated
Appended == (Len(prompt) + 1)..Len(generated)

InLoop == ipc \in {"loop", "embedded", "encoded", "logits", "topk", "returned"}

\* C7: inference performs exactly max_new_tokens generation steps and then
\* stops: the sequence holds len(prompt) + (steps done) tokens throughout, never
\* more than max_new_tokens steps are done, the first len(prompt) tokens stay
\* the encoded prompt, and the result returned decodes len(prompt) +
\* max_new_tokens tokens.
C7_ExactlyNSteps ==
  InLoop =>
    /\ Len(generated) = Len(prompt) + step
    /\ step <= max_new_tokens
    /\ SubSeq(generated, 1, Len(prompt)) = Encode(tokenizer, prompt)
    /\ ipc = "returned" =>
         /\ step = max_new_tokens
         /\ Len(result) = Len(prompt) + max_new_tokens
         /\ result = Decode(tokenizer, generated)

\* a call that has returned after two or more steps
C7_Witness ==
  ipc = "returned" /\ max_new_tokens >= 2 /\ Len(prompt) >= 1 /\ step = max_new_tokens

\* the logits the loop computes for the sequence seq, at its last position
StepLogits(seq) == Logits(LLM, seq)[Len(seq)]

\* C8: with top_k = 1 every appended token is an argmax of the logits at the
\* last position of the sequence it was appended to.
C8_GreedyWhenTopK1 ==
  (InLoop /\ top_k = 1) =>
    \A p \in Appended :
      \A v \in 0..(LLM.vocab_size - 1) :
        StepLogits(SubSeq(generated, 1, p - 1))[generated[p] + 1]
          >= StepLogits(SubSeq(generated, 1, p - 1))[v + 1]

\* two greedy steps done over a vocabulary of two or more, the second one
\* choosing a strict maximum that is not vocabulary index 0
C8_Witness ==
  /\ ipc = "returned" /\ top_k = 1 /\ step >= 2 /\ LLM.vocab_size >= 2
  /\ generated[Len(generated)] # 0
  /\ \A v \in 0..(LLM.vocab_size - 1) :
       v # generated[Len(generated)] =>
         next_token_logits[v + 1] < next_token_logits[generated[Len(generated)] + 1]

\* C9: every appended token is a vocabulary index in [0, vocab_size), and fewer
\* than top_k vocabulary indices score higher than it in the logits at the last
\* position of the sequence it was appended to.
C9_TokenAmongTopK ==
  InLoop =>
    \A p \in Appended :
      /\ generated[p] \in 0..(tokenizer.vocab_size - 1)
      /\ Cardinality({v \in 0..(LLM.vocab_size - 1) :
                        StepLogits(SubSeq(generated, 1, p - 1))[v + 1]
                          > StepLogits(SubSeq(generated, 1, p - 1))[generated[p] + 1]})
           < top_k

\* a step with 1 < top_k < vocab_size that appended a token other than the
\* argmax, from logits that differ between the first and the last position
C9_Witness ==
  /\ ipc = "loop" /\ step >= 1 /\ top_k >= 2 /\ top_k < LLM.vocab_size
  /\ \E v \in 0..(LLM.vocab_size - 1) :
       next_token_logits[v + 1] > next_token_logits[next_token + 1]
  /\ Len(outputs) >= 2 /\ FirstPosition(outputs) # LastPosition(outputs)

\* C10: running the positional encoding on a sequence longer than max_len is an
\* error: it never produces an output.
C10_LongSequenceIsAnError ==
  ipc \in {"encoded", "logits"} => hidden[2] <= LLM.max_len

\* ------------------------------------------------- selfAttention: more claims
\* x with batch element b2 replaced by the rows toks
ReplaceBatch(xin, b2, toks) ==
  Contig(xin.shape,
         LAMBDA idx : IF idx[1] = b2 THEN Row(toks[idx[2] + 1], idx[3])
                      ELSE At(xin, idx))

\* C12: the output for batch element b depends only on the input of batch
\* element b: replacing any other batch element of x leaves it unchanged.
C12_NoCrossBatch ==
  (pc = "returned" /\ x.shape[1] >= 2) =>
    \A b, b2 \in 0..(x.shape[1] - 1) :
      b # b2 =>
        \A toks \in [1..x.shape[2] -> 0..MaxTok] :
          /\ FwdReturns(self, ReplaceBatch(x, b2, toks))
          /\ \A l \in 0..(x.shape[2] - 1), o \in 0..(x.shape[3] - 1) :
               RatEq(At(Forward(self, ReplaceBatch(x, b2, toks)), <<b, l, o>>),
                     At(attn_output, <<b, l, o>>))

\* the states of a call in which its mask is built and added to the scores
MaskBuilt == pc \in {"mask", "masked"}

\* C13: the mask of a call on a sequence of length L is the L x L matrix with 0
\* at (i, j) for j <= i and minus infinity for j > i, in the first call and in
\* every later one: it is a function of L alone.
C13_MaskIsFunctionOfL ==
  MaskBuilt =>
    /\ mask.shape = <<x.shape[2], x.shape[2]>>
    /\ \A i, j \in 0..(x.shape[2] - 1) :
         At(mask, <<i, j>>) = IF j <= i THEN Fin(0) ELSE NegInf

\* the mask of a later call on the same object, for L >= 2
C13_Witness == pc = "mask" /\ called_before /\ x.shape[2] >= 2

\* the state of a call in which the scores have just been divided
ScoresScaled == pc = "scaled"

\* the dot product of query i and key j of head h of batch element b
DotQK(b, h, i, j) ==
  SeqSum([d \in 1..Q.shape[4] |-> At(Q, <<b, h, i, d - 1>>) * At(K, <<b, h, j, d - 1>>)])

PeBuilt == ppc \in {"ready", "called", "returned"}

\* C11: in the table as built, the row of position 0 holds 0 at every even
\* (sine) dimension and 1 at every odd (cosine) dimension.
C11_PositionZeroRow ==
  PeBuilt =>
    \A d \in 0..(pe_config.d_embed - 1) :
      IF d % 2 = 0 THEN TermIsZero(At(pe, <<0, 0, d>>)) /\ At(pe, <<0, 0, d>>).fn = "sin"
      ELSE TermIsOne(At(pe, <<0, 0, d>>))

\* a table of two or more dimension pairs and two or more positions
C11_Witness == PeBuilt /\ pe_config.d_embed >= 4 /\ pe_config.max_len >= 2

\* ------------------------------------------------------ LanguageModel: claims
\* __init__ has returned an object
LmBuilt == lpc \notin {"idle", "new"} /\ ~(lpc = "raised" /\ lerr \in {"assign", "ZeroDivisionError"})

\* Transformer.forward of block layer - 1 has returned
BlockReturned == lpc = "loop" /\ layer >= 2

\* C14: Transformer.forward attends, adds the residual, normalizes, feeds
\* forward, adds the residual and normalizes, in this order and under every
\* configuration: rmsnorm1 receives input + attention(input), the MLP
\* receives the normalized value, rmsnorm2 receives the normalized value plus
\* the MLP's output, and the block returns what rmsnorm2 returns.
C14_PostNormOrder ==
  BlockReturned =>
    LET k == layer - 1
        a == Term("add", 0, <<bx, Term("attention", k, <<bx>>)>>)
        n1 == Term("rmsnorm1", k, <<a>>)
        f == Term("add", 0, <<n1, MlpForward(k, n1)>>)
    IN  /\ blog = << [module |-> "attention", input |-> bx],
                     [module |-> "rmsnorm1", input |-> a],
                     [module |-> "mlp", input |-> n1],
                     [module |-> "rmsnorm2", input |-> f] >>
        /\ lx = Term("rmsnorm2", k, <<f>>)

\* the second block of a model whose d_mlp is not 4 * d_embed has returned
C14_Witness ==
  /\ BlockReturned /\ layer = 3
  /\ lm_config.d_mlp # MlpFactor * lm_config.d_embed
  /\ Len(blog) = 4

\* C20: the hidden width of every block's MLP is config['d_mlp'].
C20_HiddenWidthIsDMlp ==
  LmBuilt =>
    \A i \in 1..Len(lm.transformers) :
      /\ lm.transformers[i].mlp.up_projection.out_features = lm_config.d_mlp
      /\ lm.transformers[i].mlp.down_projection.in_features = lm_config.d_mlp

\* the term forward returns when it runs blocks 1..n on t
RECURSIVE StackTerm(_, _)
StackTerm(n, t) ==
  IF n = 0 THEN t
  ELSE LET b == StackTerm(n - 1, t)
           a == Term("add", 0, <<b, Term("attention", n, <<b>>)>>)
           n1 == Term("rmsnorm1", n, <<a>>)
       IN  Term("rmsnorm2", n, <<Term("add", 0, <<n1, MlpForward(n, n1)>>)>>)

\* forward has returned [B, L, vocab_size] logits, having applied the embedding,
\* the positional encoding, blocks 1..num_layers in list order and the head
PipelineReturned ==
  /\ lpc = "returned"
  /\ lshape = Append(input_ids.shape, lm_config.vocab_size)
  /\ llog = << [module |-> "embedding", index |-> 0], [module |-> "posEnc", index |-> 0] >>
            \o [i \in 1..lm_config.num_layers |-> [module |-> "transformers", index |-> i]]
            \o << [module |-> "head", index |-> 0] >>
  /\ lx = Term("head", 0,
               <<StackTerm(lm_config.num_layers,
                           Term("posEnc", 0, <<Term("embedding", 0, <<Term("x", 0, <<>>)>>)>>))>>)

\* no two blocks of the list share a parameter tensor
BlocksDisjoint ==
  /\ Len(lm.transformers) = lm_config.num_layers
  /\ \A i, j \in 1..Len(lm.transformers) :
       i # j => BlockParams(lm.transformers[i]) \cap BlockParams(lm.transformers[j]) = {}

\* a call of forward with indices in [0, vocab_size) and L <= max_len is over
ValidCallOver ==
  /\ lpc \in {"returned", "raised"}
  /\ input_ids # NoTensor
  /\ LookupOk(lm.embedding, input_ids)
  /\ input_ids.shape[2] <= lm_config.max_len

\* C16: LanguageModel.forward maps [B, L] indices to [B, L, vocab_size] logits
\* by the embedding, the positional encoding, each of the num_layers blocks
\* once in list order and the head; no two blocks share a parameter tensor.
C16_ForwardPipeline ==
  /\ LmBuilt => BlocksDisjoint
  /\ ValidCallOver => PipelineReturned

\* C15: no step of LanguageModel.forward, of the blocks it runs or of their
\* selfAttention writes a parameter tensor or the positional-encoding buffer:
\* whatever calls are made, each holds the value it had before.
C15_ForwardWritesNoParameter ==
  [][LmBuilt => (lm' = lm /\ lm_params' = lm_params)]_vars

\* a forward call through a block has returned
C15_Witness ==
  /\ lpc = "returned"
  /\ lm_config.num_layers >= 1
  /\ lm.posEnc.pe = PeTable(lm_config)

\* ---------------------------------------------------------- Tokenizer: claims
TkBuilt == tkpc \notin {"idle", "new"}

\* the call that is over
LastOp == tk_ops[Len(tk_ops)]

CallOver == tkpc \in {"returned", "raised"}

\* C17: the Tokenizer is a bijection between the distinct characters of its
\* dataset and 0..vocab_size-1: char2idx and idx2char are inverse bijections,
\* every index encode returns is in [0, vocab_size), decode(encode(t)) == t
\* for every text t over dataset characters and encode(decode(s)) == s for
\* every index list s over [0, vocab_size), and none of these calls raises.
C17_TokenizerBijection ==
  TkBuilt =>
    /\ DOMAIN tkz.char2idx = CharSet(tk_dataset)
    /\ DOMAIN tkz.idx2char = 0..(tkz.vocab_size - 1)
    /\ \A c \in CharSet(tk_dataset) :
         tkz.char2idx[c] \in 0..(tkz.vocab_size - 1) /\ tkz.idx2char[tkz.char2idx[c]] = c
    /\ \A i \in 0..(tkz.vocab_size - 1) :
         tkz.idx2char[i] \in CharSet(tk_dataset) /\ tkz.char2idx[tkz.idx2char[i]] = i
    /\ (CallOver /\ tk_ops = <<"encode">>
           /\ \A i \in 1..Len(tk_arg.items) : tk_arg.items[i] \in CharSet(tk_dataset))
        => /\ tkpc = "returned"
           /\ Len(tk_ret.items) = Len(tk_arg.items)
           /\ \A i \in 1..Len(tk_ret.items) : tk_ret.items[i] \in 0..(tkz.vocab_size - 1)
    /\ (CallOver /\ tk_ops = <<"decode">>
           /\ \A i \in 1..Len(tk_arg.items) : tk_arg.items[i] \in 0..(tkz.vocab_size - 1))
        => tkpc = "returned"
    /\ (CallOver /\ tk_ops \in {<<"encode", "decode">>, <<"decode", "encode">>})
        => tkpc = "returned" /\ tk_ret = tk_in

\* decode has returned the two different characters encode was given, out of a
\* dataset that repeats its characters
C17_Witness ==
  /\ tkpc = "returned" /\ tk_ops = <<"encode", "decode">>
  /\ Len(tk_in.items) = 2 /\ tk_in.items[1] > tk_in.items[2]
  /\ Len(tk_dataset) > tkz.vocab_size

\* the argument of the call that is over has a token outside the vocabulary
OutOfVocabulary ==
  IF LastOp = "encode"
  THEN \E i \in 1..Len(tk_arg.items) : tk_arg.items[i] \notin CharSet(tk_dataset)
  ELSE \E i \in 1..Len(tk_arg.items) :
         tk_arg.items[i] < 0 \/ tk_arg.items[i] >= tkz.vocab_size

\* C18: encode of a text with a character absent from the dataset, decode of
\* an index outside [0, vocab_size) and an embedding lookup of such an index
\* each raise and return nothing.
C18_OutOfVocabularyRaises ==
  (CallOver /\ OutOfVocabulary) => (tkpc = "raised" /\ tkerr # "" /\ tk_ret = None)

\* the embedding has raised on a negative index that follows a valid one
C18_Witness ==
  /\ tkpc = "raised" /\ LastOp = "embedding"
  /\ Len(tk_arg.items) = 2 /\ tk_arg.items[1] = 0 /\ tk_arg.items[2] < 0

\* ------------------------------------------------- selfAttention: construction
\* C23: after __init__ with d_head in 1..d_embed, num_head is
\* floor(d_embed / d_head), num_head * d_head is d_embed, so that the Q, K, V
\* and output projections have width d_embed, and the stored d_head is the
\* configured one.
C23_HeadsTileWidth ==
  (Constructed /\ config.d_head <= config.d_embed) =>
    /\ self.num_head = config.d_embed \div config.d_head
    /\ self.num_head * self.d_head = self.d_embed
    /\ self.W_q.out_features = self.d_embed
    /\ self.W_k.out_features = self.d_embed
    /\ self.W_v.out_features = self.d_embed
    /\ self.W_o.out_features = self.d_embed
    /\ self.d_head = config.d_head

\* ------------------------------------------------------ inference: more claims
\* C24: the logits of every step are those of the model passed as the
\* argument model, whatever other model is in scope.
C24_LogitsOfModelArgument ==
  ipc = "logits" =>
    /\ outputs = Logits(model, generated)
    /\ next_token_logits = Logits(model, generated)[Len(generated)]

\* a prompt the Tokenizer encodes to one index or more, and a top_k the
\* vocabulary can serve
UsableCall ==
  /\ Len(prompt) >= 1
  /\ \A i \in 1..Len(prompt) : prompt[i] \in CharSet(Dataset(tokenizer.vocab_size))
  /\ top_k <= LLM.vocab_size

\* C25: step k runs the model on len(prompt) + k - 1 tokens; when
\* len(prompt) + N - 1 <= max_len every step succeeds, and otherwise the call
\* raises at the first step whose sequence is longer than max_len and returns no
\* text.
C25_LengthDecidesSuccess ==
  UsableCall =>
    /\ ipc \in {"embedded", "encoded", "logits", "topk"} => Len(generated) = Len(prompt) + step
    /\ ipc = "raised" =>
         /\ Len(generated) > LLM.max_len
         /\ Len(generated) = Len(prompt) + step
         /\ result = <<>>
    /\ (ipc = "returned" /\ max_new_tokens >= 1) =>
         Len(prompt) + max_new_tokens - 1 <= LLM.max_len


\* ---------------------------------------------------- FullyVisibleBM: claims
BmBuilt == bpc \notin {"idle", "new"}

\* C21: from construction through every epoch of training, W is symmetric
\* and its diagonal is zero.
C21_WSymmetricZeroDiagonal ==
  BmBuilt =>
    \A i \in 1..n_visible, j \in 1..n_visible :
      /\ bm.W[i][j] = bm.W[j][i]
      /\ bm.W[i][i] = 0


\* a unit of the running gibbs_sample call has just been resampled
UnitSampled == bpc = "sweeping" /\ glog # <<>>

\* row with its entry of unit l (counted from 0) set to bit
WithUnit(row, l, bit) == [row EXCEPT ![l + 1] = bit]

\* C22: the activation cond_prob(v, l) passes to the sigmoid is
\* energy(v with v_l = 0) - energy(v with v_l = 1), in every row (both sides
\* doubled).
C22_ActivationIsEnergyGap ==
  UnitSampled =>
    LET l == glog[Len(glog)]
    IN  \A r \in 1..Len(Chain) :
          2 * gp[r] = Energy2(bm, WithUnit(Chain[r], l, 0)) - Energy2(bm, WithUnit(Chain[r], l, 1))


\* C27: cond_prob(v, l) does not depend on v[:, l]: the activation of the unit
\* just resampled is the same whatever column l of v holds, whatever the
\* diagonal of W.
C27_OwnValueIgnored ==
  UnitSampled =>
    LET l == glog[Len(glog)]
    IN  \A col \in [1..Len(Chain) -> {0, 1}] :
          Activation(bm, SetColumn(Chain, l, col), l) = gp

\* a unit with W[l][l] # 0 was resampled from a v with v[:, l] set
C27_Witness ==
  /\ UnitSampled
  /\ LET l == glog[Len(glog)]
     IN  /\ bm.W[l + 1][l + 1] # 0
         /\ \E r \in 1..Len(v0_at_call) : v0_at_call[r][l + 1] = 1
         /\ gsweep = 0


\* the running gibbs_sample call has cloned v0
FrameLive == bpc \in {"sweeping", "sampled", "returned"}

\* C26: gibbs_sample(v0, k) makes exactly k sweeps, each over the units
\* 0..n-1 in increasing order, each unit resampled from the activation of the
\* current v; v0 stays as it was passed, and every entry of v is 0 or 1.
C26_GibbsSweeps ==
  FrameLive =>
    /\ gh.store.v0 = v0_at_call
    /\ \A r \in 1..Len(Chain), j \in 1..n_visible : Chain[r][j] \in {0, 1}
    /\ \A t \in 1..Len(glog) : glog[t] = (t - 1) % n_visible
    /\ gsweep * n_visible <= Len(glog) /\ Len(glog) <= (gsweep + 1) * n_visible
    /\ UnitSampled => gp = Activation(bm, Chain, glog[Len(glog)])
    /\ bpc \in {"sampled", "returned"} =>
         /\ gsweep = gk
         /\ Len(glog) = gk * n_visible
         /\ gk = 0 => Chain = v0_at_call

\* a call with k >= 1 over two units or more has returned a v that differs
\* from v0
C26_Witness ==
  /\ bpc \in {"sampled", "returned"}
  /\ gk >= 1 /\ n_visible >= 2
  /\ Chain # v0_at_call


\* W has the diagonal of w0 and its differences w0[i][j] - w0[j][i]
SameDiagonalAndSkew(W, w0) ==
  \A i \in 1..Len(W), j \in 1..Len(W) :
    /\ W[i][i] = w0[i][i]
    /\ W[i][j] - W[j][i] = w0[i][j] - w0[j][i]

\* C28: every update of the training loop leaves the diagonal of W as it was
\* and changes W[i][j] and W[j][i] by the same amount: after any number of
\* epochs W has the diagonal and the differences W[i][j] - W[j][i] it was
\* constructed with.
C28_UpdateKeepsDiagonalAndSkew ==
  BmBuilt =>
    \E seed \in 0..MaxBmSeed : SameDiagonalAndSkew(bm.W, InitW(n_visible, seed))

\* an update has changed the weights between two units
C28_Witness ==
  /\ bpc = "ready" /\ epoch >= 1 /\ n_visible >= 2
  /\ \A seed \in 0..MaxBmSeed : bm.W # InitW(n_visible, seed)

\* C29: training is CD-1: the negative phase of an epoch is one Gibbs sweep.
C29_OneSweepPerEpoch ==
  bpc = "sampled" => (gsweep = 1 /\ Len(glog) = n_visible)


\* --------------------------------------------------- langevin_sample: claims
\* the value after the updates that drew the noises ns, from value x0 under
\* parameters theta
RECURSIVE Langevin(_, _, _)
Langevin(x0, theta, ns) ==
  IF ns = <<>> THEN x0
  ELSE [op |-> "step", prev |-> <<Langevin(x0, theta, SubSeq(ns, 1, Len(ns) - 1))>>,
        theta |-> theta, noise |-> ns[Len(ns)]]

\* C30: langevin_sample makes exactly `steps` updates
\* x <- x - step_size * grad_x E(x) + noise_scale * noise and returns a tensor
\* of the shape of x_init; x_init, the parameters of the model and their
\* accumulated gradients stay as they were at the call; with steps = 0 the
\* return is a copy of x_init.
C30_LangevinSteps ==
  /\ spc \in {"loop", "grad", "returned"} =>
       /\ sx_init = sx_at_call
       /\ ebm = ebm_at_call
       /\ Len(snoise) <= ssteps
       /\ sx.val = Langevin(sx_at_call.val, ebm_at_call.theta, snoise)
  /\ spc = "returned" =>
       /\ Len(snoise) = ssteps
       /\ sret.val = Langevin(sx_at_call.val, ebm_at_call.theta, snoise)
       /\ sret.shape = sx_at_call.shape
       /\ sret.storage # sx_init.storage
       /\ ssteps = 0 => sret.val = sx_at_call.val

\* a call with two steps or more has returned, on a model that holds
\* accumulated gradients of an earlier epoch
C30_Witness ==
  /\ spc = "returned" /\ ssteps >= 2
  /\ ebm.grad # <<>> /\ ebm.theta >= 1
  /\ sret.val # sx_at_call.val

====
